---- MODULE Spec2Model ----
(***************************************************************************)
(* Model of the protocol simulation engine.                                *)
(*                                                                         *)
(* The port manager (src/src/port_manager.py): PortPool and                *)
(* IntelligentPortManager.  The state is the manager's two dictionaries;   *)
(* one action per public method.  Each method is also written as an        *)
(* operator of the dictionaries (AllocResult, DeallocResult, ...) giving   *)
(* the value returned and the dictionaries afterwards; the action applies  *)
(* it.  `last' records the most recent call and the return path it took;   *)
(* for an allocate_ports that used its preferred block also its protocol   *)
(* and device id; for validate_allocation_plan the number of plan items    *)
(* whose simulated allocation succeeded.  Specification: Spec.             *)
(*                                                                         *)
(* The device lifecycle (src/src/protocols/industrial): the devices of     *)
(* the Modbus, OPC-UA and MQTT managers, their start() and stop(), the     *)
(* managers' start_all_devices, stop_all_devices and restart_device, and   *)
(* the MQTT gateway's connection callbacks.  A handler runs as one step;   *)
(* the calls into the protocol libraries inside stop() are taken to        *)
(* return normally.  `lifecycle' records, per device, whether a start that *)
(* succeeded or a stop was the last to be performed on it.                 *)
(* Specification: LifecycleSpec.                                           *)
(***************************************************************************)
EXTENDS Integers, Sequences, FiniteSets, TLC

(* ------------------------------ bounds --------------------------------- *)
\* ports are 1..MaxPort
MaxPort == 3
\* allocate is called with count in 0..MaxCount
MaxCount == 2
\* a plan handed to validate_allocation_plan names at most MaxPlanLen devices
MaxPlanLen == 2
\* at most MaxOrphanLoops update loops of a device live on unnamed by it
MaxOrphanLoops == 2
\* a device's error_count is followed up to MaxErrorCount
MaxErrorCount == 2
MaxDevices == 20
MaxPublishes == 103
MaxPublishErrors == 1
MaxClock == 4
MaxData == 2
MaxStateTicks == 6
MaxSnapshots == 3
MaxReading == 2
PublishInterval == 2

Ports == 1..MaxPort
Counts == 0..MaxCount
Devices == {"device1", "device2"}
Protocols == {"modbus", "mqtt"}

\* preferred_start = None (or 0): Python's `if preferred_start and ...' is false
NoPreferredStart == 0
PreferredStarts == {NoPreferredStart} \cup Ports

(* ------------------------- Python values ------------------------------- *)
\* Optional[List[int]]: None, or a list of ports
None == [none |-> TRUE, ports |-> <<>>]
List(s) == [none |-> FALSE, ports |-> s]
\* truth value of an Optional[List[int]] (`if allocated:'): None and [] are false
Truthy(v) == ~v.none /\ Len(v.ports) > 0

SeqToSet(s) == {s[i] : i \in 1..Len(s)}
\* list(range(start, start + count))
RangeList(start, count) == [i \in 1..count |-> start + i - 1]
\* set(range(start, start + count))
RangeSet(start, count) == start..(start + count - 1)
MinOf(S) == CHOOSE x \in S : \A y \in S : x <= y
EmptyDict == [x \in {} |-> 0]

(* ------------------------------ state ---------------------------------- *)
VARIABLES
    port_pools,            \* IntelligentPortManager.port_pools: protocol -> PortPool
    port_pools_keys,       \* the insertion order of port_pools (dict iteration order)
    device_port_mappings,  \* IntelligentPortManager.device_port_mappings: device id -> ports
    last                   \* history: the last call and the return path it took

pmState == <<port_pools, port_pools_keys, device_port_mappings>>
pmVars == <<port_pools, port_pools_keys, device_port_mappings, last>>

(* ------------------------------ PortPool ------------------------------- *)
\* PortPool.__init__
PortPool(start_port, end_port) ==
    [start_port |-> start_port, end_port |-> end_port,
     allocated_ports |-> {}, available_ports |-> start_port..end_port]

\* PortPool._can_allocate_from
_can_allocate_from(pool, start_port, count) ==
    RangeSet(start_port, count) \subseteq pool.available_ports

\* the position of port s in sorted(available_ports), counted from 0
IndexInSorted(pool, s) == Cardinality({q \in pool.available_ports : q < s})

\* mutant: takes the first `count' available ports, contiguous or not
_find_contiguous_block_any(pool, count) ==
    LET firsts == {s \in pool.available_ports : IndexInSorted(pool, s) < count}
    IN IF Cardinality(pool.available_ports) < count THEN None
       ELSE List([i \in 1..count |->
                    CHOOSE s \in firsts : IndexInSorted(pool, s) = i - 1])

\* PortPool._find_contiguous_block: scan sorted(available_ports)[i] for
\* i in range(len - count + 1) and return the first start whose block is free
_find_contiguous_block(pool, count) ==
    LET n == Cardinality(pool.available_ports)
        hits == {s \in pool.available_ports :
                    /\ IndexInSorted(pool, s) < n - count + 1
                    /\ \A port \in RangeSet(s, count) : port \in pool.available_ports}
    IN IF hits = {} THEN None ELSE List(RangeList(MinOf(hits), count))

\* the effect of `for port in allocated: allocated_ports.add; available_ports.discard'
MarkAllocated(pool, ports) ==
    [pool EXCEPT !.allocated_ports = @ \cup SeqToSet(ports),
                 !.available_ports = @ \ SeqToSet(ports)]

\* mutant: the ports are added to allocated_ports but stay in available_ports
PortPool_allocate_keep(pool, count, preferred_start) ==
    IF count <= 0 THEN [ret |-> List(<<>>), pool |-> pool, path |-> "empty_request"]
    ELSE IF Cardinality(pool.available_ports) < count
    THEN [ret |-> None, pool |-> pool, path |-> "not_enough_ports"]
    ELSE LET preferred == /\ preferred_start # NoPreferredStart
                          /\ _can_allocate_from(pool, preferred_start, count)
             allocated == IF preferred THEN List(RangeList(preferred_start, count))
                          ELSE _find_contiguous_block(pool, count)
         IN IF Truthy(allocated)
            THEN [ret |-> allocated,
                  pool |-> [pool EXCEPT !.allocated_ports =
                                            @ \cup SeqToSet(allocated.ports)],
                  path |-> IF preferred THEN "allocated_preferred" ELSE "allocated_found"]
            ELSE [ret |-> allocated, pool |-> pool, path |-> "no_contiguous_block"]

\* mutant: preferred_start is ignored
PortPool_allocate_nopref(pool, count, preferred_start) ==
    IF count <= 0 THEN [ret |-> List(<<>>), pool |-> pool, path |-> "empty_request"]
    ELSE IF Cardinality(pool.available_ports) < count
    THEN [ret |-> None, pool |-> pool, path |-> "not_enough_ports"]
    ELSE LET allocated == _find_contiguous_block(pool, count)
         IN IF Truthy(allocated)
            THEN [ret |-> allocated, pool |-> MarkAllocated(pool, allocated.ports),
                  path |-> "allocated_found"]
            ELSE [ret |-> allocated, pool |-> pool, path |-> "no_contiguous_block"]

\* PortPool.allocate: the value returned, the pool afterwards and the return
\* path taken
PortPool_allocate(pool, count, preferred_start) ==
    IF count <= 0 THEN [ret |-> List(<<>>), pool |-> pool, path |-> "empty_request"]
    ELSE IF Cardinality(pool.available_ports) < count
    THEN [ret |-> None, pool |-> pool, path |-> "not_enough_ports"]
    ELSE LET preferred == /\ preferred_start # NoPreferredStart
                          /\ _can_allocate_from(pool, preferred_start, count)
             allocated == IF preferred THEN List(RangeList(preferred_start, count))
                          ELSE _find_contiguous_block(pool, count)
         IN IF Truthy(allocated)
            THEN [ret |-> allocated, pool |-> MarkAllocated(pool, allocated.ports),
                  path |-> IF preferred THEN "allocated_preferred" ELSE "allocated_found"]
            ELSE [ret |-> allocated, pool |-> pool, path |-> "no_contiguous_block"]

\* PortPool.deallocate: the pool afterwards
PortPool_deallocate(pool, ports) ==
    LET held == SeqToSet(ports) \cap pool.allocated_ports
    IN [pool EXCEPT !.allocated_ports = @ \ held,
                    !.available_ports = @ \cup held]

(* ----------------------- IntelligentPortManager ------------------------ *)
\* arguments of initialize_pools: an (ordered) dict protocol -> port_range;
\* a port_range is a list, of length 2 when it is well formed
RangeFull == <<1, MaxPort>>
\* a one-port range (as the default mqtt range is) inside RangeFull
RangeTop == <<MaxPort, MaxPort>>
\* a one-port range outside RangeFull
RangeNext == <<MaxPort + 1, MaxPort + 1>>
\* a malformed range
RangeBad == <<1>>
PortRangeArgs ==
    { << <<"modbus", RangeFull>>, <<"mqtt", RangeNext>> >>,
      << <<"modbus", RangeFull>>, <<"mqtt", RangeTop>> >>,
      << <<"mqtt", RangeBad>>, <<"modbus", RangeFull>> >> }

\* initialize_pools, the loop from entry i on: port_pools and its key order
RECURSIVE InitPoolsFrom(_, _, _, _)
InitPoolsFrom(pools, keys, port_ranges, i) ==
    IF i > Len(port_ranges) THEN [pools |-> pools, keys |-> keys]
    ELSE LET protocol == port_ranges[i][1]
             port_range == port_ranges[i][2]
         IN IF Len(port_range) # 2
            THEN InitPoolsFrom(pools, keys, port_ranges, i + 1)
            ELSE InitPoolsFrom(
                   [p \in DOMAIN pools \cup {protocol} |->
                       IF p = protocol THEN PortPool(port_range[1], port_range[2])
                       ELSE pools[p]],
                   IF protocol \in DOMAIN pools THEN keys ELSE Append(keys, protocol),
                   port_ranges, i + 1)

\* what initialize_pools leaves in device_port_mappings: it does not touch it
MappingsAfterInit(mappings) == mappings

\* IntelligentPortManager.initialize_pools
initialize_pools(port_ranges) ==
    LET r == InitPoolsFrom(port_pools, port_pools_keys, port_ranges, 1)
    IN /\ port_pools' = r.pools
       /\ port_pools_keys' = r.keys
       /\ device_port_mappings' = MappingsAfterInit(device_port_mappings)
       /\ last' = [op |-> "initialize_pools", path |-> "done",
                   protocol |-> "", device_id |-> "", n |-> 0]

\* mutant: no early return for a device that already has ports
AllocResult_realloc(pools, mappings, protocol, device_id, count, preferred_start) ==
    IF protocol \notin DOMAIN pools
    THEN [ret |-> None, pools |-> pools, mappings |-> mappings, path |-> "no_pool"]
    ELSE LET r == PortPool_allocate(pools[protocol], count, preferred_start)
         IN IF Truthy(r.ret)
            THEN [ret |-> r.ret,
                  pools |-> [pools EXCEPT ![protocol] = r.pool],
                  mappings |-> [d \in DOMAIN mappings \cup {device_id} |->
                                   IF d = device_id THEN r.ret.ports ELSE mappings[d]],
                  path |-> r.path]
            ELSE [ret |-> r.ret, pools |-> pools, mappings |-> mappings,
                  path |-> r.path]

\* allocate_ports as a function of the manager's dictionaries: the value
\* returned, the dictionaries afterwards, and the return path taken
AllocResult(pools, mappings, protocol, device_id, count, preferred_start) ==
    IF protocol \notin DOMAIN pools
    THEN [ret |-> None, pools |-> pools, mappings |-> mappings, path |-> "no_pool"]
    ELSE IF device_id \in DOMAIN mappings
    THEN [ret |-> List(mappings[device_id]), pools |-> pools, mappings |-> mappings,
          path |-> "already_allocated"]
    ELSE LET r == PortPool_allocate(pools[protocol], count, preferred_start)
         IN IF Truthy(r.ret)
            THEN [ret |-> r.ret,
                  pools |-> [pools EXCEPT ![protocol] = r.pool],
                  mappings |-> [d \in DOMAIN mappings \cup {device_id} |->
                                   IF d = device_id THEN r.ret.ports ELSE mappings[d]],
                  path |-> r.path]
            ELSE [ret |-> r.ret, pools |-> pools, mappings |-> mappings,
                  path |-> r.path]

\* IntelligentPortManager.allocate_ports
allocate_ports(protocol, device_id, count, preferred_start) ==
    LET r == AllocResult(port_pools, device_port_mappings,
                         protocol, device_id, count, preferred_start)
    IN /\ port_pools' = r.pools
       /\ device_port_mappings' = r.mappings
       /\ UNCHANGED port_pools_keys
       /\ last' = [op |-> "allocate_ports", path |-> r.path,
                   protocol |-> IF r.path = "allocated_preferred" THEN protocol ELSE "",
                   device_id |-> IF r.path = "allocated_preferred" THEN device_id
                                 ELSE "",
                   n |-> 0]

\* the loop of deallocate_device_ports: the first pool, in dict order, whose
\* range holds ports[0]; 0 when there is none
FindPoolIndex(pools, keys, port) ==
    LET idx == {i \in 1..Len(keys) :
                   /\ port >= pools[keys[i]].start_port
                   /\ port <= pools[keys[i]].end_port}
    IN IF idx = {} THEN 0 ELSE MinOf(idx)

\* deallocate_device_ports as a function of the manager's dictionaries: the
\* value returned and the dictionaries afterwards
DeallocResult(pools, keys, mappings, device_id) ==
    IF device_id \notin DOMAIN mappings
    THEN [ret |-> FALSE, pools |-> pools, mappings |-> mappings]
    ELSE LET ports == mappings[device_id]
             k == FindPoolIndex(pools, keys, ports[1])
         IN [ret |-> TRUE,
             pools |-> IF k = 0 THEN pools
                       ELSE [pools EXCEPT ![keys[k]] = PortPool_deallocate(@, ports)],
             mappings |-> [d \in DOMAIN mappings \ {device_id} |-> mappings[d]]]

\* IntelligentPortManager.deallocate_device_ports
deallocate_device_ports(device_id) ==
    LET r == DeallocResult(port_pools, port_pools_keys, device_port_mappings, device_id)
    IN /\ port_pools' = r.pools
       /\ device_port_mappings' = r.mappings
       /\ UNCHANGED port_pools_keys
       /\ last' = [op |-> "deallocate_device_ports",
                   path |-> IF r.ret THEN "released" ELSE "unknown_device",
                   protocol |-> "", device_id |-> "", n |-> 0]

\* validate_allocation_plan, lines 247-253: temp_pools, fresh PortPool objects
\* that carry a copy of each real pool's allocated ports
TempPools(pools) ==
    [p \in DOMAIN pools |->
        LET fresh == PortPool(pools[p].start_port, pools[p].end_port)
        IN [fresh EXCEPT !.allocated_ports = @ \cup pools[p].allocated_ports,
                         !.available_ports = @ \ pools[p].allocated_ports]]

\* a plan is an (ordered) dict device_id -> (protocol, count), written as the
\* sequence of its items <<device_id, protocol, count>>.  The device ids of a
\* plan are distinct; the manager treats all device ids alike, so the plans
\* are taken with their ids in one order (DeviceOrder).
DeviceOrder == <<"device1", "device2">>
\* the device ids of a plan: a subsequence of DeviceOrder
PlanDevices ==
    {ds \in UNION {[1..n -> 1..Len(DeviceOrder)] : n \in 0..MaxPlanLen} :
        \A i, j \in 1..Len(ds) : i < j => ds[i] < ds[j]}
Plans ==
    UNION {{[k \in 1..Len(ds) |-> <<DeviceOrder[ds[k]], f[k][1], f[k][2]>>] :
               f \in [1..Len(ds) -> Protocols \X Counts]} : ds \in PlanDevices}

\* validate_allocation_plan, the loop from item i on: the value returned,
\* temp_pools at the end and the number of items whose allocation succeeded
RECURSIVE ValidateFrom(_, _, _)
ValidateFrom(temp_pools, plan, i) ==
    IF i > Len(plan) THEN [ret |-> TRUE, temp_pools |-> temp_pools, done |-> i - 1]
    ELSE LET protocol == plan[i][2]
             count == plan[i][3]
         IN IF protocol \notin DOMAIN temp_pools
            THEN [ret |-> FALSE, temp_pools |-> temp_pools, done |-> i - 1]
            ELSE LET r == PortPool_allocate(temp_pools[protocol], count, NoPreferredStart)
                 IN IF ~Truthy(r.ret)
                    THEN [ret |-> FALSE, temp_pools |-> temp_pools, done |-> i - 1]
                    ELSE ValidateFrom([temp_pools EXCEPT ![protocol] = r.pool],
                                      plan, i + 1)

\* mutant: the simulation runs on the real pools instead of on copies
PoolsAfterValidate_aliased(pools, plan) ==
    ValidateFrom(TempPools(pools), plan, 1).temp_pools

\* what validate_allocation_plan leaves in self.port_pools: the simulation
\* only touches temp_pools
PoolsAfterValidate(pools, plan) == pools

\* IntelligentPortManager.validate_allocation_plan
validate_allocation_plan(plan) ==
    LET r == ValidateFrom(TempPools(port_pools), plan, 1)
    IN /\ port_pools' = PoolsAfterValidate(port_pools, plan)
       /\ UNCHANGED <<port_pools_keys, device_port_mappings>>
       /\ last' = [op |-> "validate_allocation_plan",
                   path |-> IF r.ret THEN "valid" ELSE "invalid",
                   protocol |-> "", device_id |-> "", n |-> r.done]

\* IntelligentPortManager.get_port_utilization, one protocol's entry
get_port_utilization(protocol) ==
    [total |-> port_pools[protocol].end_port - port_pools[protocol].start_port + 1,
     used |-> Cardinality(port_pools[protocol].allocated_ports),
     available |-> Cardinality(port_pools[protocol].available_ports)]

(* --------------------------- device lifecycle -------------------------- *)
\* the devices of the configured facility: `<protocol>_<device_type>_<i:03d>'
ModbusIds == <<"modbus_plc_000">>
OPCUAIds == <<"opcua_cnc_000">>
MQTTIds == <<"mqtt_sensor_000", "mqtt_sensor_001">>
AllIds == SeqToSet(ModbusIds) \cup SeqToSet(OPCUAIds) \cup SeqToSet(MQTTIds)
\* network.port_ranges of the facility (MQTT devices take no port)
FacilityPortRanges == << <<"modbus", RangeFull>>, <<"opcua", RangeNext>> >>
\* a configuration whose opcua range lies inside its modbus range (nothing
\* in the configuration parser rejects it)
FacilityPortRangesShared == << <<"modbus", RangeFull>>, <<"opcua", RangeTop>> >>
FacilityPortRangeArgs == {FacilityPortRanges, FacilityPortRangesShared}
\* device_config.port_start of the Modbus and of the OPC-UA device type
ModbusPortStart == 1
OPCUAPortStart == MaxPort + 1

VARIABLES
    modbus_devices,  \* ModbusDeviceManager.devices: device id -> ModbusDevice
    opcua_devices,   \* OPCUADeviceManager.devices: device id -> OPCUADevice
    mqtt_devices,    \* MQTTDeviceManager.devices: device id -> MQTTDevice
    mqtt_manager,    \* MQTTDeviceManager: client, connected, _connect_event,
                     \* _publish_task, _running
    lifecycle,       \* history: device id -> the last of start/stop performed on it
    handed,          \* history: the dict the last get_node_data() call returned
    orchestrator     \* the SimulationOrchestrator and its last call

VARIABLES
    health,          \* the devices of a facility by status, and the orchestrator's
                     \* health_status computed from them
    mqtt_history,    \* one MQTTDevice's message_history and counters, with the
                     \* payloads generated and those published so far
    publisher,       \* the MQTT gateway's publishing: the clock, the publish
                     \* loop's last_publish, and what was handed to the client
    sensor,          \* one Modbus sensor: its device type, its data generator's
                     \* pattern_config, the last snapshot and the registers
    machine,         \* the IndustrialDataGenerator of one CNC machine, robot or
                     \* PLC: its last_values and the last snapshot it returned
    runs             \* two runs of the generator of one device id, each in a
                     \* process of its own or both in one

genVars == <<sensor, machine, runs>>
dataVars == <<health, mqtt_history, publisher, genVars>>
auxVars == <<handed, orchestrator, dataVars>>
deviceVars ==
    <<modbus_devices, opcua_devices, mqtt_devices, mqtt_manager, lifecycle, auxVars>>

\* ModbusDevice.__init__.  server_task is "active" while serve_forever runs
\* (the port is bound) and "done" once it ended, as it does at once when the
\* port cannot be bound.  The further fields: orphan_server, a serve_forever
\* task of an earlier start() that still holds the port while
\* self.server_task names a later task; orphan_loops, the update loops still
\* alive that self.update_task no longer names; last_update, what wrote
\* health_status["last_update"] last (nothing, the seeding in start(), a tick
\* of an update loop).
ModbusDevice ==
    [running |-> FALSE, status |-> "stopped", server |-> FALSE,
     server_task |-> "none", update_task |-> "none",
     orphan_server |-> FALSE, orphan_loops |-> 0,
     error_count |-> 0, last_update |-> "none"]

\* OPCUADevice.__init__.  listening: the server self.server names has its
\* endpoint bound; orphan_server: a server of an earlier start() still has;
\* _cached_node_data: None ("none"), the dict a tick has just assigned
\* ("partial": without device_health and error_code) or that dict once the
\* tick has added the common fields ("complete"); tick_pc: where the update
\* loop is suspended ("sleep": between two ticks, "common": inside a tick,
\* in the writes of the common status nodes).
OPCUADevice ==
    [running |-> FALSE, status |-> "stopped", server |-> FALSE, update_task |-> "none",
     listening |-> FALSE, orphan_server |-> FALSE, orphan_loops |-> 0,
     error_count |-> 0, last_update |-> "none",
     _cached_node_data |-> "none", tick_pc |-> "sleep"]

\* MQTTDevice.__init__
MQTTDevice == [running |-> FALSE, status |-> "stopped"]

\* MQTTDeviceManager.__init__; client_loop is the client's network loop
\* (loop_start / loop_stop), the thread that delivers the callbacks
MQTTDeviceManager ==
    [client |-> FALSE, client_loop |-> FALSE, connected |-> FALSE,
     _connect_event |-> FALSE, _publish_task |-> "none", _running |-> FALSE]

\* `if task and not task.done(): task.cancel(); await task'
CancelTask(task) == IF task = "active" THEN "done" ELSE task

\* _create_devices of the Modbus and OPC-UA managers, the loop from device i
\* on: one port per device, preferred port_start + i; a failed allocation
\* raises (ok = FALSE)
RECURSIVE CreateDevicesFrom(_, _, _, _, _, _)
CreateDevicesFrom(pools, mappings, protocol, ids, port_start, i) ==
    IF i > Len(ids) THEN [ok |-> TRUE, pools |-> pools, mappings |-> mappings]
    ELSE LET r == AllocResult(pools, mappings, protocol, ids[i], 1, port_start + i - 1)
         IN IF ~Truthy(r.ret)
            THEN [ok |-> FALSE, pools |-> r.pools, mappings |-> r.mappings]
            ELSE CreateDevicesFrom(r.pools, r.mappings, protocol, ids, port_start, i + 1)

\* the loop `for device_id in self.devices.keys(): deallocate_device_ports'
RECURSIVE DeallocateAllFrom(_, _, _, _, _)
DeallocateAllFrom(pools, keys, mappings, ids, i) ==
    IF i > Len(ids) THEN [pools |-> pools, mappings |-> mappings, ret |-> FALSE]
    ELSE LET r == DeallocResult(pools, keys, mappings, ids[i])
         IN IF i = Len(ids) THEN r
            ELSE DeallocateAllFrom(r.pools, keys, r.mappings, ids, i + 1)

\* get_status() of a device of any protocol: its `status' and `running' entries
get_status(device_id) ==
    LET device == IF device_id \in DOMAIN modbus_devices THEN modbus_devices[device_id]
                  ELSE IF device_id \in DOMAIN opcua_devices THEN opcua_devices[device_id]
                  ELSE mqtt_devices[device_id]
    IN [status |-> device.status, running |-> device.running]

\* what can happen inside ModbusDevice.start: fail_at is the step that raises
\* ("context": ModbusServerContext, before the seeding; "server":
\* ModbusTcpServer, after it; "none": nothing raises and start returns True);
\* bind_ok, no other process holds the port; seed_ok, the seeding update does
\* not raise; tick_ok, the same for a first tick of the new update loop
ModbusStartOutcomes ==
    [fail_at : {"context"}, bind_ok : {FALSE}, seed_ok : {TRUE}, tick_ok : {TRUE}]
    \cup [fail_at : {"server"}, bind_ok : {FALSE}, seed_ok : BOOLEAN, tick_ok : {TRUE}]
    \cup [fail_at : {"none"}, bind_ok : BOOLEAN, seed_ok : BOOLEAN, tick_ok : BOOLEAN]

\* the value ModbusDevice.start returns
ModbusDevice_start_ok(device, outcome) == outcome.fail_at = "none"

\* mutant: the exception of a failing update is not caught in the tick; it
\* reaches the handler of the update loop, which counts it and ends the loop
_update_registers_uncaught(device, raises, by) ==
    IF raises THEN [device EXCEPT !.error_count = @ + 1,
                                  !.update_task = IF by = "tick" THEN "done" ELSE @]
    ELSE [device EXCEPT !.last_update = by]

\* ModbusDevice._update_registers_with_realistic_data: the exception of a
\* failing update is caught and counted
_update_registers_with_realistic_data(device, raises, by) ==
    IF raises THEN [device EXCEPT !.error_count = @ + 1]
    ELSE [device EXCEPT !.last_update = by]

\* the device's port is bound by one of its own servers
ModbusPortHeld(device) == device.server_task = "active" \/ device.orphan_server

\* ModbusDevice.start as a function of the device.  The server binds its port
\* inside the serve_forever task, so a port that cannot be bound does not
\* make start fail.  The update task is created while `running' still has
\* its old value and gets its first turn during the sleep before
\* `running = True': its loop ends at once unless the device was running.
ModbusDevice_start_result(device, outcome) ==
    IF outcome.fail_at = "context" THEN device
    ELSE LET seeded == _update_registers_with_realistic_data(
                           device, ~outcome.seed_ok, "seed")
             ticked == IF device.running
                       THEN _update_registers_with_realistic_data(
                                seeded, ~outcome.tick_ok, "tick")
                       ELSE seeded
         IN IF outcome.fail_at = "server" THEN seeded
            ELSE [ticked EXCEPT
                    !.server = TRUE,
                    !.orphan_server = @ \/ device.server_task = "active",
                    !.server_task = IF outcome.bind_ok /\ ~ModbusPortHeld(device)
                                    THEN "active" ELSE "done",
                    !.orphan_loops = @ + IF device.update_task = "active" THEN 1 ELSE 0,
                    !.update_task = IF device.running THEN "active" ELSE "done",
                    !.running = TRUE,
                    !.status = "running",
                    !.error_count = 0]

\* ModbusDevice.stop as a function of the device: the tasks cancelled are the
\* ones self.update_task and self.server_task name
ModbusDevice_stop_result(device) ==
    [device EXCEPT !.running = FALSE,
                   !.update_task = CancelTask(@),
                   !.server_task = CancelTask(@),
                   !.status = "stopped"]

\* what can happen inside OPCUADevice.start: fail_at "init" when the server's
\* init() or the building of the address space raises, "none" otherwise;
\* bind_ok, no other process holds the port (server.start() raises when the
\* port cannot be bound)
OPCUAStartOutcomes ==
    [fail_at : {"init"}, bind_ok : {FALSE}] \cup [fail_at : {"none"}, bind_ok : BOOLEAN]

\* the device's port is bound by one of its own servers
OPCUAPortHeld(device) == device.listening \/ device.orphan_server

\* the value OPCUADevice.start returns
OPCUADevice_start_ok(device, outcome) ==
    outcome.fail_at = "none" /\ outcome.bind_ok /\ ~OPCUAPortHeld(device)

\* OPCUADevice.start as a function of the device: self.server is replaced
\* first, whatever happens next
OPCUADevice_start_result(device, outcome) ==
    LET created == [device EXCEPT !.server = TRUE,
                                  !.listening = FALSE,
                                  !.orphan_server = @ \/ device.listening]
    IN IF ~OPCUADevice_start_ok(device, outcome) THEN created
       ELSE [created EXCEPT
               !.listening = TRUE,
               !.running = TRUE,
               !.orphan_loops = @ + IF device.update_task = "active" THEN 1 ELSE 0,
               !.update_task = "active",
               !.tick_pc = "sleep",
               !.status = "running",
               !.error_count = 0]

\* OPCUADevice.stop as a function of the device
OPCUADevice_stop_result(device) ==
    [device EXCEPT !.running = FALSE,
                   !.update_task = CancelTask(@),
                   !.tick_pc = "sleep",
                   !.server = FALSE,
                   !.listening = FALSE,
                   !.status = "stopped"]

\* MQTTDevice.start as a function of the device
MQTTDevice_start_result(device) ==
    [device EXCEPT !.running = TRUE, !.status = "running"]

\* MQTTDevice.stop as a function of the device
MQTTDevice_stop_result(device) ==
    [device EXCEPT !.running = FALSE, !.status = "stopped"]

\* the counters of the model stay within their bounds: a start that would
\* leave more than MaxOrphanLoops unnamed update loops alive, or count more
\* than MaxErrorCount errors, is not taken
ModbusStartAllowed(device, outcome) ==
    /\ device.update_task = "active" /\ outcome.fail_at = "none"
          => device.orphan_loops < MaxOrphanLoops
    /\ ~outcome.seed_ok /\ outcome.fail_at = "server"
          => device.error_count < MaxErrorCount
OPCUAStartAllowed(device, outcome) ==
    device.update_task = "active" /\ OPCUADevice_start_ok(device, outcome)
        => device.orphan_loops < MaxOrphanLoops

\* the history after start() returned for the devices of ids with oks[d] true
Started(ids, oks) ==
    [d \in DOMAIN lifecycle |->
        IF d \in ids /\ oks[d] THEN "started" ELSE lifecycle[d]]
\* the history after stop() or stop_all_devices() was performed on ids
Stopped(ids) ==
    [d \in DOMAIN lifecycle |-> IF d \in ids THEN "stopped" ELSE lifecycle[d]]
AllOk(ids) == [d \in ids |-> TRUE]

\* ModbusDevice.start
ModbusDevice_start(device_id, outcome) ==
    /\ ModbusStartAllowed(modbus_devices[device_id], outcome)
    /\ modbus_devices' = [modbus_devices EXCEPT
                             ![device_id] = ModbusDevice_start_result(@, outcome)]
    /\ lifecycle' = Started({device_id},
                            [d \in {device_id} |->
                                ModbusDevice_start_ok(modbus_devices[d], outcome)])
    /\ UNCHANGED <<opcua_devices, mqtt_devices, mqtt_manager, pmVars, auxVars>>

\* ModbusDevice.stop
ModbusDevice_stop(device_id) ==
    /\ modbus_devices' = [modbus_devices EXCEPT
                             ![device_id] = ModbusDevice_stop_result(@)]
    /\ lifecycle' = Stopped({device_id})
    /\ UNCHANGED <<opcua_devices, mqtt_devices, mqtt_manager, pmVars, auxVars>>

\* ModbusDeviceManager.start_all_devices
ModbusDeviceManager_start_all_devices(outcomes) ==
    /\ \A d \in DOMAIN modbus_devices :
          ModbusStartAllowed(modbus_devices[d], outcomes[d])
    /\ modbus_devices' = [d \in DOMAIN modbus_devices |->
                             ModbusDevice_start_result(modbus_devices[d], outcomes[d])]
    /\ lifecycle' = Started(DOMAIN modbus_devices,
                            [d \in DOMAIN modbus_devices |->
                                ModbusDevice_start_ok(modbus_devices[d], outcomes[d])])
    /\ UNCHANGED <<opcua_devices, mqtt_devices, mqtt_manager, pmVars, auxVars>>

\* ModbusDeviceManager.stop_all_devices
ModbusDeviceManager_stop_all_devices ==
    LET r == DeallocateAllFrom(port_pools, port_pools_keys, device_port_mappings,
                               ModbusIds, 1)
    IN /\ modbus_devices' = [d \in DOMAIN modbus_devices |->
                                ModbusDevice_stop_result(modbus_devices[d])]
       /\ lifecycle' = Stopped(DOMAIN modbus_devices)
       /\ port_pools' = r.pools
       /\ device_port_mappings' = r.mappings
       /\ last' = [op |-> "deallocate_device_ports",
                   path |-> IF r.ret THEN "released" ELSE "unknown_device",
                   protocol |-> "", device_id |-> "", n |-> 0]
       /\ UNCHANGED <<port_pools_keys, opcua_devices, mqtt_devices, mqtt_manager, auxVars>>

\* ModbusDeviceManager.restart_device
ModbusDeviceManager_restart_device(device_id, outcome) ==
    /\ device_id \in DOMAIN modbus_devices
    /\ ModbusStartAllowed(ModbusDevice_stop_result(modbus_devices[device_id]), outcome)
    /\ modbus_devices' = [modbus_devices EXCEPT ![device_id] =
                             ModbusDevice_start_result(ModbusDevice_stop_result(@),
                                                       outcome)]
    /\ lifecycle' = [lifecycle EXCEPT ![device_id] =
                        IF ModbusDevice_start_ok(
                               ModbusDevice_stop_result(modbus_devices[device_id]), outcome)
                        THEN "started" ELSE "stopped"]
    /\ UNCHANGED <<opcua_devices, mqtt_devices, mqtt_manager, pmVars, auxVars>>

\* OPCUADevice.start
OPCUADevice_start(device_id, outcome) ==
    /\ OPCUAStartAllowed(opcua_devices[device_id], outcome)
    /\ opcua_devices' = [opcua_devices EXCEPT
                            ![device_id] = OPCUADevice_start_result(@, outcome)]
    /\ lifecycle' = Started({device_id},
                            [d \in {device_id} |->
                                OPCUADevice_start_ok(opcua_devices[d], outcome)])
    /\ UNCHANGED <<modbus_devices, mqtt_devices, mqtt_manager, pmVars, auxVars>>

\* OPCUADevice.stop
OPCUADevice_stop(device_id) ==
    /\ opcua_devices' = [opcua_devices EXCEPT
                            ![device_id] = OPCUADevice_stop_result(@)]
    /\ lifecycle' = Stopped({device_id})
    /\ UNCHANGED <<modbus_devices, mqtt_devices, mqtt_manager, pmVars, auxVars>>

\* OPCUADeviceManager.start_all_devices
OPCUADeviceManager_start_all_devices(outcomes) ==
    /\ \A d \in DOMAIN opcua_devices :
          OPCUAStartAllowed(opcua_devices[d], outcomes[d])
    /\ opcua_devices' = [d \in DOMAIN opcua_devices |->
                            OPCUADevice_start_result(opcua_devices[d], outcomes[d])]
    /\ lifecycle' = Started(DOMAIN opcua_devices,
                            [d \in DOMAIN opcua_devices |->
                                OPCUADevice_start_ok(opcua_devices[d], outcomes[d])])
    /\ UNCHANGED <<modbus_devices, mqtt_devices, mqtt_manager, pmVars, auxVars>>

\* OPCUADeviceManager.stop_all_devices
OPCUADeviceManager_stop_all_devices ==
    LET r == DeallocateAllFrom(port_pools, port_pools_keys, device_port_mappings,
                               OPCUAIds, 1)
    IN /\ opcua_devices' = [d \in DOMAIN opcua_devices |->
                               OPCUADevice_stop_result(opcua_devices[d])]
       /\ lifecycle' = Stopped(DOMAIN opcua_devices)
       /\ port_pools' = r.pools
       /\ device_port_mappings' = r.mappings
       /\ last' = [op |-> "deallocate_device_ports",
                   path |-> IF r.ret THEN "released" ELSE "unknown_device",
                   protocol |-> "", device_id |-> "", n |-> 0]
       /\ UNCHANGED <<port_pools_keys, modbus_devices, mqtt_devices, mqtt_manager, auxVars>>

\* OPCUADeviceManager.restart_device
OPCUADeviceManager_restart_device(device_id, outcome) ==
    /\ device_id \in DOMAIN opcua_devices
    /\ OPCUAStartAllowed(OPCUADevice_stop_result(opcua_devices[device_id]), outcome)
    /\ opcua_devices' = [opcua_devices EXCEPT ![device_id] =
                            OPCUADevice_start_result(OPCUADevice_stop_result(@), outcome)]
    /\ lifecycle' = [lifecycle EXCEPT ![device_id] =
                        IF OPCUADevice_start_ok(
                               OPCUADevice_stop_result(opcua_devices[device_id]), outcome)
                        THEN "started" ELSE "stopped"]
    /\ UNCHANGED <<modbus_devices, mqtt_devices, mqtt_manager, pmVars, auxVars>>

\* MQTTDevice.start
MQTTDevice_start(device_id) ==
    /\ mqtt_devices' = [mqtt_devices EXCEPT ![device_id] = MQTTDevice_start_result(@)]
    /\ lifecycle' = Started({device_id}, AllOk({device_id}))
    /\ UNCHANGED <<modbus_devices, opcua_devices, mqtt_manager, pmVars, auxVars>>

\* MQTTDevice.stop
MQTTDevice_stop(device_id) ==
    /\ mqtt_devices' = [mqtt_devices EXCEPT ![device_id] = MQTTDevice_stop_result(@)]
    /\ lifecycle' = Stopped({device_id})
    /\ UNCHANGED <<modbus_devices, opcua_devices, mqtt_manager, pmVars, auxVars>>

\* reason_code of a CONNACK: 0 is success
ReasonCodeSuccess == 0
ReasonCodeNotAuthorized == 5
ReasonCodes == {ReasonCodeSuccess, ReasonCodeNotAuthorized}

\* MQTTDeviceManager._on_connect, called by the client's network loop
_on_connect(reason_code) ==
    /\ mqtt_manager.client_loop
    /\ mqtt_manager' = IF reason_code = ReasonCodeSuccess
                       THEN [mqtt_manager EXCEPT !.connected = TRUE,
                                                 !._connect_event = TRUE]
                       ELSE mqtt_manager
    /\ UNCHANGED <<modbus_devices, opcua_devices, mqtt_devices, lifecycle, pmVars, auxVars>>

\* MQTTDeviceManager._on_disconnect, called by the client's network loop
_on_disconnect ==
    /\ mqtt_manager.client_loop
    /\ mqtt_manager' = [mqtt_manager EXCEPT !.connected = FALSE,
                                            !._connect_event = FALSE]
    /\ UNCHANGED <<modbus_devices, opcua_devices, mqtt_devices, lifecycle, pmVars, auxVars>>

\* what the broker does with the gateway's connection attempt
ConnectOutcomes == {"connect_raises", "connack", "no_connack"}

\* MQTTDeviceManager.start_all_devices as a function of the manager and its
\* devices.  A CONNACK that arrives during the wait runs _on_connect; the
\* wait ends at once when _connect_event is still set from an earlier
\* connection.  ret is the set of device ids returned (empty for None),
\* marked tells whether device.start() was called on the devices.
MQTTDeviceManager_start_all_result(manager, devices, outcome) ==
    IF manager._running
    THEN [manager |-> manager, devices |-> devices, ret |-> DOMAIN devices,
          marked |-> FALSE]
    ELSE IF outcome = "connect_raises"
    THEN [manager |-> [manager EXCEPT !.client = TRUE], devices |-> devices,
          ret |-> {}, marked |-> FALSE]
    ELSE LET waited == IF outcome = "connack"
                       THEN [manager EXCEPT !.client = TRUE,
                                            !.client_loop = TRUE,
                                            !.connected = TRUE,
                                            !._connect_event = TRUE]
                       ELSE [manager EXCEPT !.client = TRUE,
                                            !.client_loop = TRUE]
         IN IF ~waited._connect_event
            THEN [manager |-> [waited EXCEPT !.client_loop = FALSE],
                  devices |-> devices, ret |-> {}, marked |-> FALSE]
            ELSE [manager |-> [waited EXCEPT !._running = TRUE,
                                             !._publish_task = "active"],
                  devices |-> [d \in DOMAIN devices |->
                                  MQTTDevice_start_result(devices[d])],
                  ret |-> DOMAIN devices, marked |-> TRUE]

\* MQTTDeviceManager.start_all_devices
MQTTDeviceManager_start_all_devices(outcome) ==
    LET r == MQTTDeviceManager_start_all_result(mqtt_manager, mqtt_devices, outcome)
    IN /\ mqtt_manager' = r.manager
       /\ mqtt_devices' = r.devices
       /\ lifecycle' = IF r.marked
                       THEN Started(DOMAIN mqtt_devices, AllOk(DOMAIN mqtt_devices))
                       ELSE lifecycle
       /\ UNCHANGED <<modbus_devices, opcua_devices, pmVars, auxVars>>

\* MQTTDeviceManager.stop_all_devices as a function of the manager and its
\* devices: device.stop() is inside the `if self.connected and self.client:'
\* block that publishes the offline status
MQTTDeviceManager_stop_all_result(manager, devices) ==
    [manager |-> [manager EXCEPT !._running = FALSE,
                                 !._publish_task = CancelTask(@),
                                 !.client_loop = FALSE,
                                 !.connected = FALSE],
     devices |-> IF manager.connected /\ manager.client
                 THEN [d \in DOMAIN devices |-> MQTTDevice_stop_result(devices[d])]
                 ELSE devices]

\* MQTTDeviceManager.stop_all_devices
MQTTDeviceManager_stop_all_devices ==
    /\ mqtt_devices' = MQTTDeviceManager_stop_all_result(mqtt_manager, mqtt_devices).devices
    /\ mqtt_manager' = MQTTDeviceManager_stop_all_result(mqtt_manager, mqtt_devices).manager
    /\ lifecycle' = Stopped(DOMAIN mqtt_devices)
    /\ UNCHANGED <<modbus_devices, opcua_devices, pmVars, auxVars>>

\* MQTTDeviceManager.restart_device
MQTTDeviceManager_restart_device(device_id) ==
    /\ device_id \in DOMAIN mqtt_devices
    /\ mqtt_devices' = [mqtt_devices EXCEPT ![device_id] =
                           MQTTDevice_start_result(MQTTDevice_stop_result(@))]
    /\ lifecycle' = [lifecycle EXCEPT ![device_id] = "started"]
    /\ UNCHANGED <<modbus_devices, opcua_devices, mqtt_manager, pmVars, auxVars>>

(* ----------------------------- update loops -------------------------- *)
\* no get_node_data() call yet.  view is _cached_node_data as it was when it
\* was returned; current, the dict returned is still the device's
\* _cached_node_data; modified, a tick has changed the dict since
NothingHanded == [view |-> "unread", current |-> FALSE, modified |-> FALSE]

\* ModbusDevice._data_update_loop, one turn of the loop of the task that
\* self.update_task names: `running' is true (stop() cancels this task in
\* the step that clears it), so a tick is made
ModbusDevice__data_update_loop(device_id, raises) ==
    /\ modbus_devices[device_id].update_task = "active"
    /\ raises => modbus_devices[device_id].error_count < MaxErrorCount
    /\ modbus_devices' = [modbus_devices EXCEPT ![device_id] =
                             _update_registers_with_realistic_data(@, raises, "tick")]
    /\ UNCHANGED <<opcua_devices, mqtt_devices, mqtt_manager, lifecycle, auxVars, pmVars>>

\* ModbusDevice._data_update_loop, one turn of a loop that self.update_task no
\* longer names: nothing cancels it; it ticks while `running' is true and
\* ends when it finds it false
ModbusDevice__data_update_loop_unnamed(device_id, raises) ==
    /\ modbus_devices[device_id].orphan_loops > 0
    /\ raises => /\ modbus_devices[device_id].running
                 /\ modbus_devices[device_id].error_count < MaxErrorCount
    /\ modbus_devices' = [modbus_devices EXCEPT ![device_id] =
                             IF @.running
                             THEN _update_registers_with_realistic_data(@, raises, "tick")
                             ELSE [@ EXCEPT !.orphan_loops = @ - 1]]
    /\ UNCHANGED <<opcua_devices, mqtt_devices, mqtt_manager, lifecycle, auxVars, pmVars>>

\* OPCUADevice._update_node_values up to the writes of the common status
\* nodes: the device nodes are written and _cached_node_data is replaced by a
\* new dict; a write that raises ends the tick, counted
OPCUADevice__update_node_values_begin(device_id, raises) ==
    /\ opcua_devices[device_id].update_task = "active"
    /\ opcua_devices[device_id].tick_pc = "sleep"
    /\ raises => opcua_devices[device_id].error_count < MaxErrorCount
    /\ opcua_devices' = [opcua_devices EXCEPT ![device_id] =
                            IF raises THEN [@ EXCEPT !.error_count = @ + 1]
                            ELSE [@ EXCEPT !._cached_node_data = "partial",
                                           !.tick_pc = "common"]]
    /\ handed' = IF raises THEN handed ELSE [handed EXCEPT !.current = FALSE]
    /\ UNCHANGED <<modbus_devices, mqtt_devices, mqtt_manager, lifecycle, orchestrator,
                   pmVars, dataVars>>

\* OPCUADevice._update_node_values from the writes of the common status nodes
\* on: device_health and error_code are added to the dict that
\* _cached_node_data names, and last_update is set
OPCUADevice__update_node_values_end(device_id, raises) ==
    /\ opcua_devices[device_id].update_task = "active"
    /\ opcua_devices[device_id].tick_pc = "common"
    /\ raises => opcua_devices[device_id].error_count < MaxErrorCount
    /\ opcua_devices' = [opcua_devices EXCEPT ![device_id] =
                            IF raises THEN [@ EXCEPT !.error_count = @ + 1,
                                                     !.tick_pc = "sleep"]
                            ELSE [@ EXCEPT !._cached_node_data = "complete",
                                           !.last_update = "tick",
                                           !.tick_pc = "sleep"]]
    /\ handed' = IF ~raises /\ handed.current
                 THEN [handed EXCEPT !.modified = TRUE] ELSE handed
    /\ UNCHANGED <<modbus_devices, mqtt_devices, mqtt_manager, lifecycle, orchestrator,
                   pmVars, dataVars>>

\* OPCUADevice.get_node_data: returns the dict itself, not a copy
get_node_data(device_id) ==
    /\ handed' = [view |-> opcua_devices[device_id]._cached_node_data,
                  current |-> opcua_devices[device_id]._cached_node_data # "none",
                  modified |-> FALSE]
    /\ UNCHANGED <<modbus_devices, opcua_devices, mqtt_devices, mqtt_manager, lifecycle,
                   orchestrator, pmVars, dataVars>>

(* ----------------------------- orchestrator --------------------------- *)
\* the names under which the orchestrator registers the managers, in the
\* order of _initialize_protocol_managers
ManagerNames == <<"modbus_tcp", "mqtt", "opcua">>

\* SimulationOrchestrator.__init__.  config is the part of the configuration
\* that initialize reads: the protocols enabled, network.port_ranges and
\* mqtt.use_embedded_broker.  embedded_mqtt_broker tells whether the
\* attribute holds a broker object.
\* call is the history of the last call: its name, the value returned,
\* the managers whose initialize() returned True (ok), the managers whose
\* start_all_devices() returned nothing (failed), and whether the call
\* before it was initialize() or stop_all_devices() (from_stopped).
\* history is what the calls so far did: whether initialize() returned True,
\* the managers that the last start_all_devices() started (they returned
\* devices), in that order, and the components that the last
\* stop_all_devices() stopped, in that order.
SimulationOrchestrator ==
    [config |-> [enabled |-> <<>>, port_ranges |-> <<>>, use_embedded_broker |-> TRUE],
     device_managers |-> <<>>,
     running_devices |-> EmptyDict,
     health_status |-> "stopped",
     embedded_mqtt_broker |-> FALSE,
     call |-> [op |-> "__init__", ret |-> TRUE, ok |-> {}, failed |-> {},
               from_stopped |-> FALSE],
     history |-> [initialized |-> FALSE, init_ok |-> {}, started |-> <<>>,
                  stopped |-> <<>>]]

\* the configurations: one protocol enabled, or OPC-UA and one more; the
\* ranges of the facility, a modbus and an mqtt range only, or an opcua
\* range of two ports next to the modbus range, or (with Modbus enabled) an
\* opcua range and no modbus range; the embedded broker is an option of the
\* MQTT configuration
EnabledArgs ==
    { <<"modbus_tcp">>, <<"mqtt">>, <<"opcua">>, <<"modbus_tcp", "opcua">>,
      <<"mqtt", "opcua">> }
RangeWide == <<MaxPort + 1, MaxPort + 2>>
FacilityPortRangesWide == << <<"modbus", RangeFull>>, <<"opcua", RangeWide>> >>
FacilityPortRangesNoModbus == << <<"opcua", RangeNext>> >>
OrchestratorPortRangeArgs ==
    FacilityPortRangeArgs
        \cup { << <<"modbus", RangeFull>>, <<"mqtt", RangeNext>> >>, FacilityPortRangesWide,
               FacilityPortRangesNoModbus }

Enabled(config, name) == \E i \in 1..Len(config.enabled) : config.enabled[i] = name

Configs ==
    { config \in [enabled : EnabledArgs, port_ranges : OrchestratorPortRangeArgs,
                  use_embedded_broker : BOOLEAN] :
          /\ ~Enabled(config, "mqtt") => config.use_embedded_broker
          /\ config.port_ranges = FacilityPortRangesNoModbus
                => Enabled(config, "modbus_tcp") }

\* the device ids of ids that _create_devices created: those with a record
CreatedIds(ids, mappings) == {d \in SeqToSet(ids) : d \in DOMAIN mappings}

\* get_allocation_requirements of a manager: device_allocation_plan, an item
\* <<device_id, protocol, count>> for every configured device
AllocationRequirements(name) ==
    IF name = "modbus_tcp" THEN [i \in 1..Len(ModbusIds) |-> <<ModbusIds[i], "modbus", 1>>]
    ELSE IF name = "opcua" THEN [i \in 1..Len(OPCUAIds) |-> <<OPCUAIds[i], "opcua", 1>>]
    ELSE [i \in 1..Len(MQTTIds) |-> <<MQTTIds[i], "mqtt", 0>>]

\* _validate_allocation_plan: the plans of the registered managers, from
\* manager i on, put together
RECURSIVE AllocationPlanFrom(_, _)
AllocationPlanFrom(device_managers, i) ==
    IF i > Len(device_managers) THEN <<>>
    ELSE AllocationRequirements(device_managers[i])
         \o AllocationPlanFrom(device_managers, i + 1)

\* _initialize_protocol_managers: the Modbus manager is registered whatever
\* its initialize() returned, the MQTT and OPC-UA managers only when it
\* returned True
RECURSIVE RegisteredFrom(_, _, _)
RegisteredFrom(enabled, ok, i) ==
    IF i > Len(enabled) THEN <<>>
    ELSE (IF enabled[i] = "modbus_tcp" \/ enabled[i] \in ok THEN <<enabled[i]>> ELSE <<>>)
         \o RegisteredFrom(enabled, ok, i + 1)

\* the one element of a singleton set
TheOne(S) == CHOOSE x \in S : TRUE

\* initialize, from the validation on: created is the port manager's state
\* after the managers' initialize() and ok the managers that returned True
InitializeValidated(config, keys, modbus_mappings, created, ok) ==
    TheOne({ [pools |-> created.pools, keys |-> keys, mappings |-> created.mappings,
              modbus_ids |-> IF Enabled(config, "modbus_tcp")
                             THEN CreatedIds(ModbusIds, modbus_mappings) ELSE {},
              opcua_ids |-> IF "opcua" \in ok THEN SeqToSet(OPCUAIds) ELSE {},
              mqtt_ids |-> IF "mqtt" \in ok THEN SeqToSet(MQTTIds) ELSE {},
              device_managers |-> RegisteredFrom(config.enabled, ok, 1), ok |-> ok,
              ret |-> validated.ret, done |-> validated.done] :
             validated \in {ValidateFrom(
                               TempPools(created.pools),
                               AllocationPlanFrom(
                                   RegisteredFrom(config.enabled, ok, 1), 1), 1)} })

\* initialize, from the OPC-UA manager's initialize() on
InitializeOPCUA(config, keys, modbus) ==
    TheOne({ InitializeValidated(
                 config, keys, modbus.mappings, opcua,
                 {name \in SeqToSet(config.enabled) :
                     /\ name = "modbus_tcp" => modbus.ok
                     /\ name = "opcua" => opcua.ok}) :
             opcua \in {IF Enabled(config, "opcua")
                        THEN CreateDevicesFrom(modbus.pools, modbus.mappings, "opcua",
                                               OPCUAIds, OPCUAPortStart, 1)
                        ELSE modbus} })

\* initialize, from the Modbus manager's initialize() on (the MQTT manager's
\* initialize() creates its devices without the port manager)
InitializeModbus(config, initialized, mappings) ==
    TheOne({ InitializeOPCUA(config, initialized.keys, modbus) :
             modbus \in {IF Enabled(config, "modbus_tcp")
                         THEN CreateDevicesFrom(initialized.pools, mappings, "modbus",
                                                ModbusIds, ModbusPortStart, 1)
                         ELSE [ok |-> TRUE, pools |-> initialized.pools,
                               mappings |-> mappings]} })

\* SimulationOrchestrator.initialize as a function of the port manager and
\* the configuration: initialize_pools, then every enabled manager's
\* initialize() (which allocates the ports of its devices), then the
\* validation of the managers' plans against the pools as they are by then.
\* Every step is bound to a variable, to be evaluated once.
SimulationOrchestrator_initialize_result(pools, keys, mappings, config) ==
    TheOne({ InitializeModbus(config, initialized, MappingsAfterInit(mappings)) :
             initialized \in {InitPoolsFrom(pools, keys, config.port_ranges, 1)} })

\* SimulationOrchestrator.initialize, called once after __init__
SimulationOrchestrator_initialize(config) ==
    /\ orchestrator.call.op = "__init__"
    /\ \E r \in {SimulationOrchestrator_initialize_result(
                    port_pools, port_pools_keys, device_port_mappings, config)} :
          /\ port_pools' = r.pools
          /\ port_pools_keys' = r.keys
          /\ device_port_mappings' = r.mappings
          /\ last' = [op |-> "validate_allocation_plan",
                      path |-> IF r.ret THEN "valid" ELSE "invalid",
                      protocol |-> "", device_id |-> "", n |-> r.done]
          /\ modbus_devices' = [d \in r.modbus_ids |-> ModbusDevice]
          /\ opcua_devices' = [d \in r.opcua_ids |-> OPCUADevice]
          /\ mqtt_devices' = [d \in r.mqtt_ids |-> MQTTDevice]
          /\ lifecycle' = [d \in r.modbus_ids \cup r.opcua_ids \cup r.mqtt_ids |->
                              "created"]
          /\ orchestrator' =
                [orchestrator EXCEPT
                   !.config = config,
                   !.device_managers = r.device_managers,
                   !.health_status = IF r.ret THEN "initialized" ELSE @,
                   !.embedded_mqtt_broker =
                       Enabled(config, "mqtt") /\ config.use_embedded_broker,
                   !.call = [op |-> "initialize", ret |-> r.ret, ok |-> r.ok,
                             failed |-> {}, from_stopped |-> FALSE],
                   !.history = [@ EXCEPT !.initialized = r.ret, !.init_ok = r.ok]]
    /\ UNCHANGED <<mqtt_manager, handed, dataVars>>

\* the devices of the manager registered as name that are marked running
RunningOf(name, modbus, opcua, mqtt) ==
    IF name = "modbus_tcp" THEN {d \in DOMAIN modbus : modbus[d].running}
    ELSE IF name = "opcua" THEN {d \in DOMAIN opcua : opcua[d].running}
    ELSE {d \in DOMAIN mqtt : mqtt[d].running}

\* mutant: 95 percent is not yet healthy
HealthBucket_above(healthy_devices, total_devices) ==
    IF total_devices > 0 /\ healthy_devices * 100 > 95 * total_devices THEN "healthy"
    ELSE IF total_devices > 0 /\ healthy_devices * 100 >= 80 * total_devices
    THEN "degraded"
    ELSE "unhealthy"

\* _update_health_status, the bucketing: health_percentage is
\* healthy_devices / total_devices * 100, or 0 without devices, and is compared
\* with 95 and 80.  The comparisons are made on integers, multiplied out.
HealthBucket(healthy_devices, total_devices) ==
    IF total_devices > 0 /\ healthy_devices * 100 >= 95 * total_devices THEN "healthy"
    ELSE IF total_devices > 0 /\ healthy_devices * 100 >= 80 * total_devices
    THEN "degraded"
    ELSE "unhealthy"

\* _update_health_status: the overall status, from the number of devices
\* whose status is `running' among the devices of the registered managers
OverallStatus(device_managers, modbus, opcua, mqtt) ==
    LET devices(name) == IF name = "modbus_tcp" THEN modbus
                         ELSE IF name = "opcua" THEN opcua ELSE mqtt
        names == SeqToSet(device_managers)
        total == Cardinality({<<n, d>> \in names \X AllIds : d \in DOMAIN devices(n)})
        healthy == Cardinality({<<n, d>> \in names \X AllIds :
                                   /\ d \in DOMAIN devices(n)
                                   /\ devices(n)[d].status = "running"})
    IN HealthBucket(healthy, total)

\* SimulationOrchestrator.start_all_devices: every registered manager's
\* start_all_devices() in turn; a manager that returns devices gets its
\* running_devices entry, one that returns nothing is logged and skipped
SimulationOrchestrator_start_all_devices(modbus_outcomes, connect_outcome, opcua_outcomes) ==
    LET names == SeqToSet(orchestrator.device_managers)
        modbus == IF "modbus_tcp" \in names
                  THEN [d \in DOMAIN modbus_devices |->
                           ModbusDevice_start_result(modbus_devices[d], modbus_outcomes[d])]
                  ELSE modbus_devices
        opcua == IF "opcua" \in names
                 THEN [d \in DOMAIN opcua_devices |->
                          OPCUADevice_start_result(opcua_devices[d], opcua_outcomes[d])]
                 ELSE opcua_devices
        mqtt == IF "mqtt" \in names
                THEN MQTTDeviceManager_start_all_result(mqtt_manager, mqtt_devices,
                                                        connect_outcome)
                ELSE [manager |-> mqtt_manager, devices |-> mqtt_devices, ret |-> {},
                      marked |-> FALSE]
        devices(name) ==
            IF name = "modbus_tcp"
            THEN {d \in DOMAIN modbus_devices :
                     ModbusDevice_start_ok(modbus_devices[d], modbus_outcomes[d])}
            ELSE IF name = "opcua"
            THEN {d \in DOMAIN opcua_devices :
                     OPCUADevice_start_ok(opcua_devices[d], opcua_outcomes[d])}
            ELSE mqtt.ret
        started == {name \in names : devices(name) # {}}
    IN /\ "modbus_tcp" \in names =>
             \A d \in DOMAIN modbus_devices :
                 ModbusStartAllowed(modbus_devices[d], modbus_outcomes[d])
       /\ "opcua" \in names =>
             \A d \in DOMAIN opcua_devices :
                 OPCUAStartAllowed(opcua_devices[d], opcua_outcomes[d])
       /\ modbus_devices' = modbus
       /\ opcua_devices' = opcua
       /\ mqtt_devices' = mqtt.devices
       /\ mqtt_manager' = mqtt.manager
       /\ lifecycle' =
             [d \in DOMAIN lifecycle |->
                 IF \/ d \in devices("modbus_tcp") /\ "modbus_tcp" \in names
                    \/ d \in devices("opcua") /\ "opcua" \in names
                    \/ d \in DOMAIN mqtt_devices /\ mqtt.marked
                 THEN "started" ELSE lifecycle[d]]
       /\ orchestrator' =
             [orchestrator EXCEPT
                !.running_devices =
                    [name \in DOMAIN @ \cup started |->
                        IF name \in started THEN devices(name) ELSE @[name]],
                !.health_status =
                    IF started # {}
                    THEN OverallStatus(orchestrator.device_managers, modbus, opcua,
                                       mqtt.devices)
                    ELSE @,
                !.call = [op |-> "start_all_devices", ret |-> started # {}, ok |-> {},
                          failed |-> names \ started,
                          from_stopped |->
                              orchestrator.call.op \in {"initialize", "stop_all_devices"}],
                !.history = [@ EXCEPT
                               !.started = SelectSeq(orchestrator.device_managers,
                                                     LAMBDA name : name \in started),
                               !.stopped = <<>>]]
       /\ UNCHANGED <<pmVars, handed, dataVars>>

\* SimulationOrchestrator.stop_all_devices: every registered manager's
\* stop_all_devices() in turn, in the order of device_managers, then the
\* embedded broker if there is one, then running_devices is cleared
SimulationOrchestrator_stop_all_devices ==
    LET names == SeqToSet(orchestrator.device_managers)
        modbus == IF "modbus_tcp" \in names
                  THEN DeallocateAllFrom(port_pools, port_pools_keys, device_port_mappings,
                                         ModbusIds, 1)
                  ELSE [pools |-> port_pools, mappings |-> device_port_mappings,
                        ret |-> FALSE]
        opcua == IF "opcua" \in names
                 THEN DeallocateAllFrom(modbus.pools, port_pools_keys, modbus.mappings,
                                        OPCUAIds, 1)
                 ELSE modbus
        mqtt == IF "mqtt" \in names
                THEN MQTTDeviceManager_stop_all_result(mqtt_manager, mqtt_devices)
                ELSE [manager |-> mqtt_manager, devices |-> mqtt_devices]
    IN /\ modbus_devices' = IF "modbus_tcp" \in names
                            THEN [d \in DOMAIN modbus_devices |->
                                     ModbusDevice_stop_result(modbus_devices[d])]
                            ELSE modbus_devices
       /\ opcua_devices' = IF "opcua" \in names
                           THEN [d \in DOMAIN opcua_devices |->
                                    OPCUADevice_stop_result(opcua_devices[d])]
                           ELSE opcua_devices
       /\ mqtt_devices' = mqtt.devices
       /\ mqtt_manager' = mqtt.manager
       /\ lifecycle' = [d \in DOMAIN lifecycle |-> "stopped"]
       /\ port_pools' = opcua.pools
       /\ device_port_mappings' = opcua.mappings
       /\ last' = IF names \cap {"modbus_tcp", "opcua"} = {} THEN last
                  ELSE [op |-> "deallocate_device_ports",
                        path |-> IF opcua.ret THEN "released" ELSE "unknown_device",
                        protocol |-> "", device_id |-> "", n |-> 0]
       /\ orchestrator' =
             [orchestrator EXCEPT
                !.running_devices = EmptyDict,
                !.health_status = "stopped",
                !.embedded_mqtt_broker = FALSE,
                !.call = [op |-> "stop_all_devices", ret |-> TRUE, ok |-> {},
                          failed |-> {}, from_stopped |-> FALSE],
                !.history = [@ EXCEPT
                               !.stopped =
                                   orchestrator.device_managers
                                   \o IF orchestrator.embedded_mqtt_broker
                                      THEN <<"embedded_mqtt_broker">> ELSE <<>>]]
       /\ UNCHANGED <<port_pools_keys, handed, dataVars>>

(* ------------------------------- health -------------------------------- *)
\* a facility seen by _update_health_status: total devices in the managers,
\* running of them with status `running', and health_status as last
\* computed (its status and its summary)
\* running_devices: whether start_all_devices has recorded started devices;
\* monitoring: the task running start_monitoring_loop, if one was created
HealthOf(total, running) ==
    [total |-> total, running |-> running,
     health_status |-> [status |-> "stopped", total_devices |-> 0, healthy_devices |-> 0],
     running_devices |-> FALSE,
     monitoring |-> "none"]
HealthIdle == health = HealthOf(0, 0)

\* a device's start(): on success its status becomes `running', on failure
\* it stays `stopped'
Health_start(ok) ==
    /\ health.running < health.total
    /\ health' = [health EXCEPT !.running = IF ok THEN @ + 1 ELSE @]
    /\ UNCHANGED <<pmVars, modbus_devices, opcua_devices, mqtt_devices, mqtt_manager,
                   lifecycle, handed, orchestrator, genVars, mqtt_history, publisher>>

\* a device's stop(): its status becomes `stopped'
Health_stop ==
    /\ health.running > 0
    /\ health' = [health EXCEPT !.running = @ - 1]
    /\ UNCHANGED <<pmVars, modbus_devices, opcua_devices, mqtt_devices, mqtt_manager,
                   lifecycle, handed, orchestrator, genVars, mqtt_history, publisher>>

\* _update_health_status: the facility with health_status computed from its
\* devices as they are now
UpdatedHealth(h) ==
    [h EXCEPT !.health_status =
                  [status |-> HealthBucket(h.running, h.total),
                   total_devices |-> h.total,
                   healthy_devices |-> h.running]]

\* SimulationOrchestrator._update_health_status over these devices
_update_health_status ==
    /\ health' = UpdatedHealth(health)
    /\ UNCHANGED <<pmVars, modbus_devices, opcua_devices, mqtt_devices, mqtt_manager,
                   lifecycle, handed, orchestrator, genVars, mqtt_history, publisher>>

\* SimulationOrchestrator.start_all_devices over these devices: started of
\* them start; with none started it returns False before the health update,
\* otherwise running_devices is filled and the health is computed once
Health_start_all_devices(started) ==
    /\ ~health.running_devices
    /\ health.running = 0
    /\ started \in 0..health.total
    /\ health' = IF started = 0 THEN health
                 ELSE UpdatedHealth([health EXCEPT !.running = started,
                                                   !.running_devices = TRUE])
    /\ UNCHANGED <<pmVars, modbus_devices, opcua_devices, mqtt_devices, mqtt_manager,
                   lifecycle, handed, orchestrator, genVars, mqtt_history, publisher>>

\* SimulationOrchestrator.restart_device for a device of a manager: the
\* manager stops the device and starts it; when that returns True the device
\* is running and the health is computed, otherwise the device is left
\* stopped and the orchestrator returns False without computing it
Health_restart_device(was_running, ok) ==
    /\ health.total > 0
    /\ IF was_running THEN health.running > 0 ELSE health.running < health.total
    /\ health' = IF ok
                 THEN UpdatedHealth([health EXCEPT
                                        !.running = IF was_running THEN @ ELSE @ + 1])
                 ELSE [health EXCEPT !.running = IF was_running THEN @ - 1 ELSE @]
    /\ UNCHANGED <<pmVars, modbus_devices, opcua_devices, mqtt_devices, mqtt_manager,
                   lifecycle, handed, orchestrator, genVars, mqtt_history, publisher>>

\* a caller creates a task for start_monitoring_loop: with running_devices
\* empty the loop's condition is false at once and the coroutine returns
start_monitoring_loop ==
    /\ health.monitoring = "none"
    /\ health' = [health EXCEPT !.monitoring =
                                    IF health.running_devices THEN "active" ELSE "done"]
    /\ UNCHANGED <<pmVars, modbus_devices, opcua_devices, mqtt_devices, mqtt_manager,
                   lifecycle, handed, orchestrator, genVars, mqtt_history, publisher>>

\* one iteration of the monitoring loop: the sleep of 30 seconds is over and
\* the health is computed
MonitoringLoop_iteration ==
    /\ health.monitoring = "active"
    /\ health.running_devices
    /\ health' = UpdatedHealth(health)
    /\ UNCHANGED <<pmVars, modbus_devices, opcua_devices, mqtt_devices, mqtt_manager,
                   lifecycle, handed, orchestrator, genVars, mqtt_history, publisher>>

(* -------------------------- message history --------------------------- *)
\* MQTTDevice.max_history
max_history == 100

\* an MQTTDevice after __init__, as far as record_publish and record_error
\* go; generated counts the payloads generated for it (a payload is named by
\* its number) and published lists those whose publish succeeded
MQTTDeviceHistory ==
    [message_history |-> <<>>, publish_count |-> 0, error_count |-> 0,
     generated |-> 0, published |-> <<>>]
HistoryIdle == mqtt_history = MQTTDeviceHistory

\* mutant: at the limit the newest entry is dropped
MQTTDevice_record_publish_drop_newest(device, payload) ==
    LET appended == Append(device.message_history, payload)
    IN [device EXCEPT
          !.publish_count = @ + 1,
          !.message_history = IF Len(appended) > max_history
                              THEN SubSeq(appended, 1, Len(appended) - 1)
                              ELSE appended]

\* MQTTDevice.record_publish: count, append, and pop(0) beyond max_history
MQTTDevice_record_publish(device, payload) ==
    LET appended == Append(device.message_history, payload)
    IN [device EXCEPT
          !.publish_count = @ + 1,
          !.message_history = IF Len(appended) > max_history
                              THEN Tail(appended) ELSE appended]

\* MQTTDevice.record_error
MQTTDevice_record_error(device) == [device EXCEPT !.error_count = @ + 1]

\* one turn of the publish loop for the device: a payload is generated and
\* published; on success record_publish(payload), otherwise record_error()
History_publish(ok) ==
    /\ mqtt_history.generated < MaxPublishes
    /\ ~ok => mqtt_history.error_count < MaxPublishErrors
    /\ LET payload == mqtt_history.generated + 1
           generated == [mqtt_history EXCEPT !.generated = payload]
       IN mqtt_history' =
             IF ok
             THEN [MQTTDevice_record_publish(generated, payload) EXCEPT
                     !.published = Append(@, payload)]
             ELSE MQTTDevice_record_error(generated)
    /\ UNCHANGED <<pmVars, modbus_devices, opcua_devices, mqtt_devices, mqtt_manager,
                   lifecycle, handed, orchestrator, genVars, health, publisher>>

(* --------------------------- MQTT publishing --------------------------- *)
\* The gateway's publishing.  clock is time.time(), in units of which
\* device_config.publish_interval is PublishInterval; it starts late enough
\* for `current_time - 0 >= interval' to hold, as it does for a time since
\* the epoch.  last_publish is the dict of that name in _publish_loop, new
\* with every run of the loop.  generated counts the payloads generated for
\* each device (a payload is named by its number).  log lists the
\* client.publish() and client.disconnect() calls of the present session,
\* each with self.connected as it was then; a session begins with a
\* start_all_devices() that makes a client, or with a stop_all_devices()
\* that follows a disconnect.  last_data is, for each device, its last data message
\* published successfully: the payload, its timestamp, and current_time of
\* the turn of the loop that published it.
Publisher ==
    [clock |-> PublishInterval, last_publish |-> EmptyDict,
     generated |-> [d \in SeqToSet(MQTTIds) |-> 0], log |-> <<>>,
     last_data |-> EmptyDict,
     records |-> [d \in SeqToSet(MQTTIds) |->
                     [message_history |-> <<>>, publish_count |-> 0,
                      error_count |-> 0]],
     turn |-> [results |-> EmptyDict, flip |-> FALSE]]
PublisherIdle == publisher = Publisher

\* mutant: the status of the first device only
StatusMessages_first(kind, connected) ==
    <<[kind |-> kind, device_id |-> MQTTIds[1], connected |-> connected]>>

\* the status messages of all devices, in the order of self.devices
StatusMessages(kind, connected) ==
    [i \in 1..Len(MQTTIds) |->
        [kind |-> kind, device_id |-> MQTTIds[i], connected |-> connected]]

\* MQTTDeviceManager.start_all_devices with its publishing: the online
\* status of every device once the connection is confirmed, then the
\* publish loop is created, with its own last_publish
MQTTGateway_start_all_devices(outcome) ==
    /\ \E r \in {MQTTDeviceManager_start_all_result(mqtt_manager, mqtt_devices, outcome)} :
          /\ mqtt_manager' = r.manager
          /\ mqtt_devices' = r.devices
          /\ lifecycle' = IF r.marked
                          THEN Started(DOMAIN mqtt_devices, AllOk(DOMAIN mqtt_devices))
                          ELSE lifecycle
          /\ publisher' =
                IF mqtt_manager._running THEN publisher
                ELSE [publisher EXCEPT
                        !.log = IF r.marked
                                THEN StatusMessages("online", r.manager.connected)
                                ELSE <<>>,
                        !.last_publish = IF r.marked THEN EmptyDict ELSE @,
                        !.records = IF r.marked
                                    THEN [d \in DOMAIN @ |->
                                            [@[d] EXCEPT !.error_count = 0]]
                                    ELSE @]
    /\ UNCHANGED <<modbus_devices, opcua_devices, pmVars, handed, orchestrator, genVars,
                   health, mqtt_history>>

\* MQTTDeviceManager.stop_all_devices with its publishing: the publish task
\* is cancelled, the offline status of every device is published if
\* self.connected and self.client, then the client is disconnected
MQTTGateway_stop_all_devices ==
    /\ \E r \in {MQTTDeviceManager_stop_all_result(mqtt_manager, mqtt_devices)} :
          /\ mqtt_manager' = r.manager
          /\ mqtt_devices' = r.devices
    /\ lifecycle' = Stopped(DOMAIN mqtt_devices)
    /\ publisher' =
          [publisher EXCEPT
             !.log = (IF @ # <<>> /\ @[Len(@)].kind = "disconnect" THEN <<>> ELSE @)
                     \o (IF mqtt_manager.connected /\ mqtt_manager.client
                         THEN StatusMessages("offline", TRUE) ELSE <<>>)
                     \o (IF mqtt_manager.client
                         THEN <<[kind |-> "disconnect", device_id |-> "",
                                 connected |-> mqtt_manager.connected]>>
                         ELSE <<>>)]
    /\ UNCHANGED <<modbus_devices, opcua_devices, pmVars, handed, orchestrator, genVars,
                   health, mqtt_history>>

\* mutant: every running device is due in every turn of the loop
DuePublish_always(last_publish, device_id, current_time) == TRUE

\* _publish_loop: `current_time - last_publish.get(device_id, 0) >= interval'
DuePublish(last_publish, device_id, current_time) ==
    LET last_time == IF device_id \in DOMAIN last_publish
                     THEN last_publish[device_id] ELSE 0
    IN current_time - last_time >= PublishInterval

\* mutant: a failed publish postpones the device's next publish as well
PublishOne_failure_postpones(pub, device_id, result, current_time) ==
    [pub EXCEPT
       !.generated[device_id] = @ + 1,
       !.records[device_id] =
           IF result = "success"
           THEN MQTTDevice_record_publish(@, pub.generated[device_id] + 1)
           ELSE MQTTDevice_record_error(@),
       !.last_publish =
           [d \in DOMAIN @ \cup {device_id} |->
               IF d = device_id THEN current_time ELSE @[d]]]
\* _publish_loop, the body for one device that is due: a payload is
\* generated and handed to client.publish; a result of MQTT_ERR_SUCCESS is
\* recorded with record_publish and sets last_publish to current_time, any
\* other result and any exception is recorded with record_error
PublishOne(pub, device_id, result, current_time) ==
    LET payload == pub.generated[device_id] + 1
    IN IF result # "success"
       THEN [pub EXCEPT
               !.generated[device_id] = payload,
               !.records[device_id] = MQTTDevice_record_error(@)]
       ELSE [pub EXCEPT
               !.generated[device_id] = payload,
               !.records[device_id] = MQTTDevice_record_publish(@, payload),
               !.log = Append(@, [kind |-> "data", device_id |-> device_id,
                                  connected |-> TRUE]),
               !.last_publish =
                   [d \in DOMAIN @ \cup {device_id} |->
                       IF d = device_id THEN current_time ELSE @[d]],
               !.last_data =
                   [d \in DOMAIN @ \cup {device_id} |->
                       IF d = device_id
                       THEN [payload |-> payload, timestamp |-> pub.clock,
                             current_time |-> current_time]
                       ELSE @[d]]]
\* _publish_loop, the for loop of one turn from device i on: every running
\* device that is due is handled, a failure of one does not end the loop
RECURSIVE PublishFrom(_, _, _, _, _)
PublishFrom(pub, devices, results, current_time, i) ==
    IF i > Len(MQTTIds) THEN pub
    ELSE LET device_id == MQTTIds[i]
         IN IF ~(/\ devices[device_id].running
                 /\ DuePublish(pub.last_publish, device_id, current_time))
            THEN PublishFrom(pub, devices, results, current_time, i + 1)
            ELSE PublishFrom(PublishOne(pub, device_id, results[device_id],
                                        current_time),
                             devices, results, current_time, i + 1)
\* MQTTDeviceManager._publish_loop, one turn of the while loop of the task
\* that _publish_task names, the gateway connected.  The turn has no await
\* before its last statement: it reads the clock once and handles every
\* device.
_publish_loop(results) ==
    /\ mqtt_manager._publish_task = "active"
    /\ mqtt_manager._running
    /\ mqtt_manager.connected
    /\ \A d \in DOMAIN mqtt_devices : publisher.generated[d] < MaxData
    /\ \E pub \in {PublishFrom(publisher, mqtt_devices, results, publisher.clock, 1)} :
          publisher' = [pub EXCEPT !.turn = [results |-> results,
                                             flip |-> ~publisher.turn.flip]]
    /\ UNCHANGED <<pmVars, modbus_devices, opcua_devices, mqtt_devices, mqtt_manager,
                   lifecycle, handed, orchestrator, genVars, health, mqtt_history>>

\* time passes
Publisher_clock ==
    /\ publisher.clock < MaxClock
    /\ publisher' = [publisher EXCEPT !.clock = @ + 1]
    /\ UNCHANGED <<pmVars, modbus_devices, opcua_devices, mqtt_devices, mqtt_manager,
                   lifecycle, handed, orchestrator, genVars, health, mqtt_history>>

(* ----------------------- data generation: sensors ---------------------- *)
\* dict.get(key, default)
Get(dict, key, default) == IF key \in DOMAIN dict THEN dict[key] ELSE default
\* dict.update(other): the keys of other are set, the others kept
Update(dict, other) ==
    [key \in DOMAIN dict \cup DOMAIN other |->
        IF key \in DOMAIN other THEN other[key] ELSE dict[key]]
\* max(bounds[0], min(bounds[1], value)), bounds a two-element list
Clamp(value, bounds) ==
    LET upper == IF value < bounds[2] THEN value ELSE bounds[2]
    IN IF upper > bounds[1] THEN upper ELSE bounds[1]

\* the values the generators compute before they apply their bounds: a base
\* value plus cycles plus unbounded normal noise, so any value can come up.
\* They are whole numbers here, on which round(value, 2) and int(value * 100)
\* are exact
RawTemperatures == {15, 19, 25, 31, 50}
RawHumidities == {20, 35, 50, 75, 90}
RawPressures == {-5, 100, 240, 260, 320}
RawFlowRates == {5, 15, 50, 120, 200}
RawValues ==
    [temperature : RawTemperatures, humidity : RawHumidities,
     pressure : RawPressures, flow_rate : RawFlowRates]

\* IndustrialDataGenerator.generate_temperature: the computed value, bounded
\* by the temperature_range of the config it is given
generate_temperature(config, raw) ==
    Clamp(raw, Get(config, "temperature_range", <<18, 45>>))
generate_humidity(config, raw) ==
    Clamp(raw, Get(config, "humidity_range", <<30, 80>>))
generate_pressure(config, raw) ==
    Clamp(raw, Get(config, "pressure_range", <<0, 300>>))
generate_flow_rate(config, raw) ==
    Clamp(raw, Get(config, "flow_range", <<10, 150>>))

\* the two alarm entries of the dict literal that generate_device_data hands
\* to data.update(): they read data, the dict being updated, and the
\* thresholds of the pressure section
PressureAlarms(data, pressure_config) ==
    LET alarm_thresholds == Get(pressure_config, "alarm_thresholds", EmptyDict)
    IN [high_alarm |->
            Get(data, "pressure", 0) > Get(alarm_thresholds, "high_pressure", 250),
        low_flow_alarm |->
            Get(data, "flow_rate", 0) < Get(alarm_thresholds, "low_flow", 20)]

\* the sections of pattern_config that generate_device_data hands to the
\* generators of a sensor's values
SensorSections(pattern_config) ==
    [temperature |-> Get(pattern_config, "temperature", EmptyDict),
     humidity |-> Get(pattern_config, "humidity", EmptyDict),
     pressure |-> Get(pattern_config, "pressure", EmptyDict),
     flow_rate |-> Get(pattern_config, "flow_rate", EmptyDict)]

\* IndustrialDataGenerator.generate_device_data for the two Modbus sensors.
\* The dict literal is evaluated before data.update() is called, so its alarm
\* entries see data as it is before the update
generate_device_data(device_type, pattern_config, raw) ==
    LET data == [device_type |-> device_type]
        sections == SensorSections(pattern_config)
    IN IF device_type = "temperature_sensor"
       THEN Update(data,
                [temperature |-> generate_temperature(sections.temperature,
                                                      raw.temperature),
                 humidity |-> generate_humidity(sections.humidity, raw.humidity),
                 sensor_status |-> 0,
                 sensor_healthy |-> TRUE])
       ELSE Update(data,
                [pressure |-> generate_pressure(sections.pressure, raw.pressure),
                 flow_rate |-> generate_flow_rate(sections.flow_rate, raw.flow_rate),
                 high_alarm |-> PressureAlarms(data, sections.pressure).high_alarm,
                 low_flow_alarm |->
                     PressureAlarms(data, sections.pressure).low_flow_alarm])

\* the data_config of a device type in the facility configuration, in the
\* shapes in use: none, the ranges and thresholds at the top level (the
\* default configuration's shape), and the same inside the sections that
\* generate_device_data reads
TemperatureDataConfigs ==
    {EmptyDict,
     [temperature_range |-> <<20, 30>>, humidity_range |-> <<40, 60>>],
     [temperature_range |-> <<20, 30>>],
     [temperature |-> [temperature_range |-> <<20, 30>>],
      humidity |-> [humidity_range |-> <<40, 60>>]]}
PressureDataConfigs ==
    {EmptyDict,
     [pressure_range |-> <<0, 300>>, flow_range |-> <<10, 150>>,
      alarm_thresholds |-> [high_pressure |-> 250, low_flow |-> 20]],
     [pressure |-> [alarm_thresholds |-> [high_pressure |-> 250, low_flow |-> 20]]]}
SensorTypes == {"temperature_sensor", "pressure_transmitter"}
DataConfigsOf(device_type) ==
    IF device_type = "temperature_sensor" THEN TemperatureDataConfigs
    ELSE PressureDataConfigs

\* ModbusDevice.__init__, for the registers and the data generator:
\* pattern_config is device_config.data_config or {}
ModbusSensor(device_type, data_config) ==
    [device_type |-> device_type,
     pattern_config |-> data_config,
     device_data |-> EmptyDict,
     hr |-> <<0, 0, 0>>,
     di |-> <<FALSE, FALSE>>,
     updated |-> FALSE,
     error_count |-> 0]
SensorIdle == sensor = ModbusSensor("temperature_sensor", EmptyDict)

\* the register image after context.setValues(3, 0, values) and
\* context.setValues(2, 0, values): the addresses from 0 are overwritten
SetValues(registers, values) ==
    [i \in 1..Len(registers) |-> IF i <= Len(values) THEN values[i] ELSE registers[i]]

\* ModbusDevice._update_registers_with_realistic_data of a sensor: a snapshot
\* is generated and mapped to the registers; if the generator raises, the
\* registers stay and the error is counted
ModbusSensor_update_registers(raw, raises) ==
    /\ \/ /\ raises
          /\ sensor.error_count < MaxErrorCount
          /\ sensor' = [sensor EXCEPT !.error_count = @ + 1]
       \/ /\ ~raises
          /\ \E device_data \in {generate_device_data(sensor.device_type,
                                                      sensor.pattern_config, raw)} :
                sensor' =
                    IF sensor.device_type = "temperature_sensor"
                    THEN [sensor EXCEPT
                            !.device_data = device_data,
                            !.hr = SetValues(@, <<device_data.temperature * 100,
                                                  device_data.humidity * 100,
                                                  device_data.sensor_status>>),
                            !.di = SetValues(@, <<device_data.sensor_healthy>>),
                            !.updated = TRUE]
                    ELSE [sensor EXCEPT
                            !.device_data = device_data,
                            !.hr = SetValues(@, <<device_data.pressure * 100,
                                                  device_data.flow_rate * 100>>),
                            !.di = SetValues(@, <<device_data.high_alarm,
                                                  device_data.low_flow_alarm>>),
                            !.updated = TRUE]
    /\ UNCHANGED <<pmVars, modbus_devices, opcua_devices, mqtt_devices, mqtt_manager,
                   lifecycle, handed, orchestrator, health, mqtt_history, publisher,
                   machine, runs>>

(* ----------------------- data generation: machines --------------------- *)
\* random_state.random(), in thousandths: one value of each interval that the
\* transitions of the two state machines tell apart
Rolls == {0, 3, 5, 8, 15, 120, 150, 180, 200, 250}
\* tool wear in percent.  The code adds about 0.01 per RUNNING tick; here a
\* tick adds nothing or a whole step, so that every order of state changes
\* and tool changes the code can produce is produced
WearSteps == {0, 30}
InitialWears == {0, 30}
Programs == {"G-Code_001", "G-Code_002", "G-Code_003"}
MachineTypes == {"cnc_machine", "industrial_robot"}

\* state_ticks + 1.  The code compares the counter with 3 and with 5 only, so
\* the counts from MaxStateTicks on are kept as one
NextTicks(state_ticks) ==
    IF state_ticks < MaxStateTicks THEN state_ticks + 1 ELSE MaxStateTicks

\* mutant: ERROR and SETUP are left whatever the age of the state
CNCTransition_ungated(state, ticks, roll) ==
    IF state = "RUNNING" /\ roll < 5 THEN [machine_state |-> "ERROR", changed |-> TRUE]
    ELSE IF state = "RUNNING" /\ roll < 15
    THEN [machine_state |-> "IDLE", changed |-> TRUE]
    ELSE IF state = "IDLE" /\ roll < 150
    THEN [machine_state |-> "RUNNING", changed |-> TRUE]
    ELSE IF state = "IDLE" /\ roll < 180
    THEN [machine_state |-> "SETUP", changed |-> TRUE]
    ELSE IF state = "ERROR" /\ roll < 250
    THEN [machine_state |-> "IDLE", changed |-> TRUE]
    ELSE IF state = "SETUP" /\ roll < 200
    THEN [machine_state |-> "RUNNING", changed |-> TRUE]
    ELSE [machine_state |-> state, changed |-> FALSE]
\* mutant: an ERROR is never recovered from
CNCTransition_no_recovery(state, ticks, roll) ==
    IF state = "ERROR" THEN [machine_state |-> state, changed |-> FALSE]
    ELSE CNCTransition_ungated(state, ticks, roll)
\* generate_cnc_machine_data, the state-aware transitions: the state after
\* them, and whether a branch that sets state and state_ticks was taken
CNCTransition(state, ticks, roll) ==
    IF state = "RUNNING"
    THEN IF roll < 5 THEN [machine_state |-> "ERROR", changed |-> TRUE]
         ELSE IF roll < 15 THEN [machine_state |-> "IDLE", changed |-> TRUE]
         ELSE [machine_state |-> state, changed |-> FALSE]
    ELSE IF state = "IDLE"
    THEN IF roll < 150 THEN [machine_state |-> "RUNNING", changed |-> TRUE]
         ELSE IF roll < 180 THEN [machine_state |-> "SETUP", changed |-> TRUE]
         ELSE [machine_state |-> state, changed |-> FALSE]
    ELSE IF state = "ERROR"
    THEN IF ticks > 5 /\ roll < 250 THEN [machine_state |-> "IDLE", changed |-> TRUE]
         ELSE [machine_state |-> state, changed |-> FALSE]
    ELSE IF state = "SETUP"
    THEN IF ticks > 3 /\ roll < 200
         THEN [machine_state |-> "RUNNING", changed |-> TRUE]
         ELSE [machine_state |-> state, changed |-> FALSE]
    ELSE [machine_state |-> state, changed |-> FALSE]

\* IndustrialDataGenerator.generate_cnc_machine_data under the default
\* configuration: last_values after the call and, of the dict returned, the
\* entries that depend on the state machine
generate_cnc_machine_data(last_values, roll, initial_wear, wear_step, program) ==
    LET started == IF "machine_state" \in DOMAIN last_values THEN last_values
                   ELSE Update(last_values,
                               [machine_state |-> "RUNNING", state_ticks |-> 0])
        ticks == NextTicks(Get(started, "state_ticks", 0))
        t == CNCTransition(started.machine_state, ticks, roll)
        state == t.machine_state
        new_program == started.machine_state = "SETUP" /\ t.changed
        wear_before == Get(started, "tool_wear", initial_wear)
        wear == IF state = "RUNNING" THEN wear_before + wear_step ELSE wear_before
        tool_change == wear > 90
        tool_wear == IF tool_change THEN 0 ELSE wear
        program_name == IF new_program \/ "program_name" \notin DOMAIN started
                        THEN program ELSE started.program_name
    IN [last_values |->
            Update(started,
                   [machine_state |-> IF tool_change THEN "SETUP" ELSE state,
                    state_ticks |-> IF t.changed \/ tool_change THEN 0 ELSE ticks,
                    tool_wear |-> tool_wear,
                    program_name |-> program_name]),
        data |-> [machine_state |-> state,
                  tool_wear_percent |-> tool_wear,
                  program_name |-> program_name]]

\* generate_robot_data, the state-aware transitions
RobotTransition(state, ticks, roll) ==
    IF state = "RUNNING"
    THEN IF roll < 8 THEN [robot_state |-> "PAUSED", changed |-> TRUE]
         ELSE IF roll < 3 THEN [robot_state |-> "STOPPED", changed |-> TRUE]
         ELSE [robot_state |-> state, changed |-> FALSE]
    ELSE IF state = "PAUSED"
    THEN IF ticks > 3 /\ roll < 200 THEN [robot_state |-> "RUNNING", changed |-> TRUE]
         ELSE [robot_state |-> state, changed |-> FALSE]
    ELSE IF state = "STOPPED"
    THEN IF ticks > 5 /\ roll < 120 THEN [robot_state |-> "RUNNING", changed |-> TRUE]
         ELSE [robot_state |-> state, changed |-> FALSE]
    ELSE [robot_state |-> state, changed |-> FALSE]

\* IndustrialDataGenerator.generate_robot_data: last_values after the call
\* and the robot_state of the dict returned
generate_robot_data(last_values, roll) ==
    LET started == IF "robot_state" \in DOMAIN last_values THEN last_values
                   ELSE Update(last_values,
                               [robot_state |-> "RUNNING", robot_state_ticks |-> 0])
        ticks == NextTicks(Get(started, "robot_state_ticks", 0))
        t == RobotTransition(started.robot_state, ticks, roll)
    IN [last_values |->
            Update(started,
                   [robot_state |-> t.robot_state,
                    robot_state_ticks |-> IF t.changed THEN 0 ELSE ticks]),
        data |-> [robot_state |-> t.robot_state]]

\* IndustrialDataGenerator.__init__ for a device of the given type
\* (found is history: the state and the counter the last call worked with)
IndustrialDataGenerator(device_type) ==
    [device_type |-> device_type, pattern_config |-> EmptyDict,
     last_values |-> EmptyDict, data |-> EmptyDict,
     found |-> [state |-> "", ticks |-> 0]]
MachineIdle == machine = IndustrialDataGenerator("cnc_machine")

\* the state the next call of the generator finds: the one in last_values,
\* RUNNING on the first call
MachineState ==
    IF machine.device_type = "cnc_machine"
    THEN Get(machine.last_values, "machine_state", "RUNNING")
    ELSE Get(machine.last_values, "robot_state", "RUNNING")
\* the counter the next call compares: state_ticks + 1
MachineTicks ==
    IF machine.device_type = "cnc_machine"
    THEN NextTicks(Get(machine.last_values, "state_ticks", 0))
    ELSE NextTicks(Get(machine.last_values, "robot_state_ticks", 0))

\* generate_device_data(device_type) of a CNC machine or a robot: one tick
Machine_generate_device_data(roll, initial_wear, wear_step, program) ==
    /\ \E r \in {IF machine.device_type = "cnc_machine"
                 THEN generate_cnc_machine_data(machine.last_values, roll,
                                                initial_wear, wear_step, program)
                 ELSE generate_robot_data(machine.last_values, roll)} :
          machine' = [machine EXCEPT
                         !.last_values = r.last_values,
                         !.data = r.data,
                         !.found = [state |-> MachineState, ticks |-> MachineTicks]]
    /\ UNCHANGED <<pmVars, modbus_devices, opcua_devices, mqtt_devices, mqtt_manager,
                   lifecycle, handed, orchestrator, health, mqtt_history, publisher,
                   sensor, runs>>

(* -------------------- data generation: PLC controller ------------------ *)
\* the values drawn in one generate_plc_controller_data call: the mode roll
\* (in thousandths), whether the setpoint roll is below 0.01, the setpoint
\* variation of uniform(-5, 5), the disturbance of normal(0, 2), the manual
\* drift of normal(0, 1) and, for the first call, the normal(0, 5) around the
\* setpoint
PLCDraws ==
    [roll : {0, 5, 120}, adjust : BOOLEAN, sp_variation : {-5, 5},
     disturbance : {-2, 2}, drift : {-1, 1}, initial_noise : {0, 5}]

\* configurations of a PLC controller.  The gains are whole numbers that keep
\* every value of the loop a whole number (control_output * 0.1 included), so
\* that the arithmetic here is the code's
PLCConfigs ==
    {[process_value_range |-> <<0, 30>>, setpoint |-> 15, kp |-> 10, ki |-> 10,
      kd |-> 0],
     [process_value_range |-> <<0, 30>>, setpoint |-> 25, kp |-> 10, ki |-> 10,
      kd |-> 0, manual_output |-> 150]}

\* mutant: the setpoint target follows the last target, not the configured
\* setpoint
SetpointTarget_walk(last_target, setpoint, pv_range, draws) ==
    IF draws.adjust
    THEN Clamp(last_target + 2 * draws.sp_variation,
               <<pv_range[1] + 10, pv_range[2] - 10>>)
    ELSE last_target
\* the occasional setpoint change: setpoint_target after it
SetpointTarget(last_target, setpoint, pv_range, draws) ==
    IF draws.adjust
    THEN Clamp(setpoint + draws.sp_variation, <<pv_range[1] + 10, pv_range[2] - 10>>)
    ELSE last_target

\* the mode transitions of generate_plc_controller_data
PLCTransition(mode, roll) ==
    IF mode = "AUTO"
    THEN IF roll < 5 THEN "MANUAL" ELSE IF roll < 8 THEN "CASCADE" ELSE mode
    ELSE IF mode = "MANUAL" THEN IF roll < 80 THEN "AUTO" ELSE mode
    ELSE IF mode = "CASCADE" THEN IF roll < 30 THEN "AUTO" ELSE mode
    ELSE mode

\* IndustrialDataGenerator.generate_plc_controller_data: last_values after
\* the call and the dict returned
generate_plc_controller_data(last_values, config, draws) ==
    LET pv_range == Get(config, "process_value_range", <<0, 100>>)
        setpoint == Get(config, "setpoint", 50)
        \* (the defaults of the gains, 1.0, 0.1 and 0.05, are not used: every
        \* configuration here gives its gains)
        kp == config.kp
        ki == config.ki
        kd == config.kd
        started == IF "plc_mode" \in DOMAIN last_values THEN last_values
                   ELSE Update(last_values,
                               [plc_mode |-> "AUTO", integral_term |-> 0,
                                last_error |-> 0,
                                process_value |-> setpoint + draws.initial_noise,
                                setpoint_target |-> setpoint])
        mode == PLCTransition(started.plc_mode, draws.roll)
        active_setpoint ==
            SetpointTarget(started.setpoint_target, setpoint, pv_range, draws)
        pv0 == started.process_value + draws.disturbance
        automatic == mode = "AUTO" \/ mode = "CASCADE"
        error == active_setpoint - pv0
        integral_term == IF automatic
                         THEN Clamp(started.integral_term + error * ki, <<-50, 50>>)
                         ELSE started.integral_term
        derivative == error - started.last_error
        control_output ==
            IF automatic
            THEN Clamp(kp * error + integral_term + kd * derivative, <<0, 100>>)
            ELSE Get(config, "manual_output", 50)
        pv1 == IF automatic THEN pv0 + (control_output \div 10) - 5
               ELSE pv0 + draws.drift
        pv == Clamp(pv1, pv_range)
    IN [last_values |->
            Update(started,
                   [plc_mode |-> mode,
                    setpoint_target |-> active_setpoint,
                    integral_term |-> integral_term,
                    last_error |-> IF automatic THEN error ELSE started.last_error,
                    process_value |-> pv]),
        data |-> [process_value |-> pv,
                  setpoint |-> active_setpoint,
                  control_output |-> control_output,
                  mode |-> mode,
                  integral_term |-> integral_term]]

\* generate_device_data("plc_controller"): the plc section of pattern_config,
\* or pattern_config itself, is the controller's configuration
PLC_generate_device_data(draws) ==
    /\ machine.device_type = "plc_controller"
    /\ \E r \in {generate_plc_controller_data(
                    machine.last_values,
                    Get(machine.pattern_config, "plc", machine.pattern_config),
                    draws)} :
          machine' = [machine EXCEPT
                         !.last_values = r.last_values,
                         !.data = r.data,
                         !.found = [state |-> Get(machine.last_values, "plc_mode", "AUTO"),
                                    ticks |-> 0]]
    /\ UNCHANGED <<pmVars, modbus_devices, opcua_devices, mqtt_devices, mqtt_manager,
                   lifecycle, handed, orchestrator, health, mqtt_history, publisher,
                   sensor, runs>>

(* --------------------- data generation: determinism -------------------- *)
\* the keys of str.__hash__: the interpreter draws one when a process starts
\* (PYTHONHASHSEED unset), so two processes may or may not have the same
HashSeeds == {0, 1}
RunIds == {"device_a", "device_b"}
\* hash(device_id) in a process with the given key: a keyed hash of the
\* string, here a value that differs whenever the key or the string does
StrHash(hash_seed, device_id) ==
    hash_seed * 1009 + (IF device_id = "device_a" THEN 17 ELSE 29)
\* the seed of np.random.RandomState in IndustrialDataGenerator.__init__:
\* hash(device_id) % 2**32.  The hashes here are far below 2**32 and below
\* the modulus that stands for it
GeneratorSeed(hash_seed, device_id) == StrHash(hash_seed, device_id) % (2 ^ 16)
\* the n-th snapshot of a generator: what it computes from the n-th draws of
\* the stream of its seed and from the reading of time.time()
Snapshot(seed, n, current_time) ==
    [timestamp |-> current_time, draws |-> <<seed, n>>]

\* two IndustrialDataGenerator(device_id, pattern_config) built for the same
\* device id and configuration, in processes with the given hash keys
GeneratorRuns(device_id, hash_seeds) ==
    [device_id |-> device_id,
     hash_seeds |-> hash_seeds,
     seeds |-> [i \in 1..2 |-> GeneratorSeed(hash_seeds[i], device_id)],
     snapshots |-> <<<<>>, <<>>>>]
RunsIdle == runs = GeneratorRuns("device_a", <<0, 0>>)

\* generate_device_data of run i, time.time() reading current_time: the
\* clock does not go back
Run_generate_device_data(i, current_time) ==
    /\ Len(runs.snapshots[i]) < MaxSnapshots
    /\ \A k \in 1..Len(runs.snapshots[i]) :
          runs.snapshots[i][k].timestamp <= current_time
    /\ runs' = [runs EXCEPT
                   !.snapshots[i] =
                       Append(@, Snapshot(runs.seeds[i], Len(@) + 1, current_time))]
    /\ UNCHANGED <<pmVars, modbus_devices, opcua_devices, mqtt_devices, mqtt_manager,
                   lifecycle, handed, orchestrator, health, mqtt_history, publisher,
                   sensor, machine>>

(* --------------------------- specifications ---------------------------- *)
\* the state of the data side when it is not exercised
DataIdle ==
    HealthIdle /\ HistoryIdle /\ PublisherIdle /\ SensorIdle /\ MachineIdle /\ RunsIdle

\* IntelligentPortManager.__init__
PMInit ==
    /\ port_pools = EmptyDict
    /\ port_pools_keys = <<>>
    /\ device_port_mappings = EmptyDict
    /\ last = [op |-> "__init__", path |-> "done", protocol |-> "", device_id |-> "",
               n |-> 0]

\* the protocol managers after __init__: no devices yet
ManagersInit ==
    /\ modbus_devices = EmptyDict
    /\ opcua_devices = EmptyDict
    /\ mqtt_devices = EmptyDict
    /\ mqtt_manager = MQTTDeviceManager
    /\ lifecycle = EmptyDict
    /\ handed = NothingHanded
    /\ orchestrator = SimulationOrchestrator
    /\ DataIdle

InitPools ==
    /\ \E port_ranges \in PortRangeArgs : initialize_pools(port_ranges)
    /\ UNCHANGED deviceVars
Allocate ==
    /\ \E protocol \in Protocols, device_id \in Devices, count \in Counts,
          preferred_start \in PreferredStarts :
           allocate_ports(protocol, device_id, count, preferred_start)
    /\ UNCHANGED deviceVars
Deallocate ==
    /\ \E device_id \in Devices : deallocate_device_ports(device_id)
    /\ UNCHANGED deviceVars
ValidatePlan ==
    /\ \E plan \in Plans : validate_allocation_plan(plan)
    /\ UNCHANGED deviceVars

PMNext == InitPools \/ Allocate \/ Deallocate \/ ValidatePlan

vars == <<port_pools, port_pools_keys, device_port_mappings, last,
          modbus_devices, opcua_devices, mqtt_devices, mqtt_manager, lifecycle, handed,
          orchestrator, dataVars>>

\* the port manager on its own, called in any order with any arguments
Init == PMInit /\ ManagersInit
Next == PMNext
Spec == Init /\ [][Next]_vars

\* the facility after the orchestrator's initialize(): pools set up from the
\* configuration, every manager's devices created, none started
FacilityPools == InitPoolsFrom(EmptyDict, <<>>, FacilityPortRanges, 1)
FacilityModbus ==
    CreateDevicesFrom(FacilityPools.pools, EmptyDict, "modbus", ModbusIds,
                      ModbusPortStart, 1)
FacilityOPCUA ==
    CreateDevicesFrom(FacilityModbus.pools, FacilityModbus.mappings, "opcua", OPCUAIds,
                      OPCUAPortStart, 1)

\* the facility when the configuration enables one protocol only: the pools
\* of every configured range exist, the one manager has created its devices
\* (an MQTT device takes no port)
FacilityOf(enabled, port_ranges) ==
    LET initialized == InitPoolsFrom(EmptyDict, <<>>, port_ranges, 1)
        created ==
            IF enabled = "modbus"
            THEN CreateDevicesFrom(initialized.pools, EmptyDict, "modbus", ModbusIds,
                                   ModbusPortStart, 1)
            ELSE IF enabled = "opcua"
            THEN CreateDevicesFrom(initialized.pools, EmptyDict, "opcua", OPCUAIds,
                                   OPCUAPortStart, 1)
            ELSE [ok |-> TRUE, pools |-> initialized.pools, mappings |-> EmptyDict]
    IN [pools |-> created.pools, keys |-> initialized.keys, mappings |-> created.mappings]
IdsOf(enabled) ==
    IF enabled = "modbus" THEN ModbusIds
    ELSE IF enabled = "opcua" THEN OPCUAIds ELSE MQTTIds

LifecycleInit ==
    \E enabled \in {"modbus", "opcua", "mqtt"}, port_ranges \in FacilityPortRangeArgs :
        /\ port_pools = FacilityOf(enabled, port_ranges).pools
        /\ port_pools_keys = FacilityOf(enabled, port_ranges).keys
        /\ device_port_mappings = FacilityOf(enabled, port_ranges).mappings
        /\ last = IF enabled = "mqtt"
                  THEN [op |-> "initialize_pools", path |-> "done",
                        protocol |-> "", device_id |-> "", n |-> 0]
                  ELSE [op |-> "allocate_ports", path |-> "allocated_preferred",
                        protocol |-> enabled,
                        device_id |-> IdsOf(enabled)[Len(IdsOf(enabled))], n |-> 0]
        /\ modbus_devices = IF enabled = "modbus"
                            THEN [d \in SeqToSet(ModbusIds) |-> ModbusDevice]
                            ELSE EmptyDict
        /\ opcua_devices = IF enabled = "opcua"
                           THEN [d \in SeqToSet(OPCUAIds) |-> OPCUADevice]
                           ELSE EmptyDict
        /\ mqtt_devices = IF enabled = "mqtt"
                          THEN [d \in SeqToSet(MQTTIds) |-> MQTTDevice]
                          ELSE EmptyDict
        /\ mqtt_manager = MQTTDeviceManager
        /\ lifecycle = [d \in SeqToSet(IdsOf(enabled)) |-> "created"]
        /\ handed = NothingHanded
        /\ orchestrator = SimulationOrchestrator
        /\ DataIdle

ModbusStart ==
    \E d \in DOMAIN modbus_devices, outcome \in ModbusStartOutcomes :
        ModbusDevice_start(d, outcome)
ModbusStop == \E d \in DOMAIN modbus_devices : ModbusDevice_stop(d)
ModbusStartAll ==
    /\ modbus_devices # EmptyDict
    /\ \E outcomes \in [DOMAIN modbus_devices -> ModbusStartOutcomes] :
           ModbusDeviceManager_start_all_devices(outcomes)
ModbusStopAll == modbus_devices # EmptyDict /\ ModbusDeviceManager_stop_all_devices
ModbusRestart ==
    \E d \in DOMAIN modbus_devices, outcome \in ModbusStartOutcomes :
        ModbusDeviceManager_restart_device(d, outcome)
OPCUAStart ==
    \E d \in DOMAIN opcua_devices, outcome \in OPCUAStartOutcomes :
        OPCUADevice_start(d, outcome)
OPCUAStop == \E d \in DOMAIN opcua_devices : OPCUADevice_stop(d)
OPCUAStartAll ==
    /\ opcua_devices # EmptyDict
    /\ \E outcomes \in [DOMAIN opcua_devices -> OPCUAStartOutcomes] :
           OPCUADeviceManager_start_all_devices(outcomes)
OPCUAStopAll == opcua_devices # EmptyDict /\ OPCUADeviceManager_stop_all_devices
OPCUARestart ==
    \E d \in DOMAIN opcua_devices, outcome \in OPCUAStartOutcomes :
        OPCUADeviceManager_restart_device(d, outcome)
MQTTStart == \E d \in DOMAIN mqtt_devices : MQTTDevice_start(d)
MQTTStop == \E d \in DOMAIN mqtt_devices : MQTTDevice_stop(d)
MQTTStartAll ==
    /\ mqtt_devices # EmptyDict
    /\ \E outcome \in ConnectOutcomes : MQTTDeviceManager_start_all_devices(outcome)
MQTTStopAll == mqtt_devices # EmptyDict /\ MQTTDeviceManager_stop_all_devices
MQTTRestart == \E d \in DOMAIN mqtt_devices : MQTTDeviceManager_restart_device(d)
MQTTOnConnect == \E reason_code \in ReasonCodes : _on_connect(reason_code)
MQTTOnDisconnect == _on_disconnect
ModbusTick ==
    \E d \in DOMAIN modbus_devices, raises \in BOOLEAN :
        ModbusDevice__data_update_loop(d, raises)
ModbusUnnamedTick ==
    \E d \in DOMAIN modbus_devices, raises \in BOOLEAN :
        ModbusDevice__data_update_loop_unnamed(d, raises)
OPCUATickBegin ==
    \E d \in DOMAIN opcua_devices, raises \in BOOLEAN :
        OPCUADevice__update_node_values_begin(d, raises)
OPCUATickEnd ==
    \E d \in DOMAIN opcua_devices, raises \in BOOLEAN :
        OPCUADevice__update_node_values_end(d, raises)
OPCUARead == \E d \in DOMAIN opcua_devices : get_node_data(d)

LifecycleNext ==
    \/ ModbusStart \/ ModbusStop \/ ModbusStartAll \/ ModbusStopAll \/ ModbusRestart
    \/ OPCUAStart \/ OPCUAStop \/ OPCUAStartAll \/ OPCUAStopAll \/ OPCUARestart
    \/ MQTTStart \/ MQTTStop \/ MQTTStartAll \/ MQTTStopAll \/ MQTTRestart
    \/ MQTTOnConnect \/ MQTTOnDisconnect
    \/ ModbusTick \/ ModbusUnnamedTick \/ OPCUATickBegin \/ OPCUATickEnd \/ OPCUARead

\* the devices of one protocol manager, started, stopped, ticking and
\* inspected in any order
LifecycleSpec == LifecycleInit /\ [][LifecycleNext]_vars

OrchestratorInit == Init
OrchestratorInitialize == \E config \in Configs : SimulationOrchestrator_initialize(config)
OrchestratorStartAll ==
    \E modbus_outcomes \in [DOMAIN modbus_devices -> ModbusStartOutcomes],
       connect_outcome \in IF mqtt_devices = EmptyDict THEN {"connect_raises"}
                           ELSE ConnectOutcomes,
       opcua_outcomes \in [DOMAIN opcua_devices -> OPCUAStartOutcomes] :
        SimulationOrchestrator_start_all_devices(modbus_outcomes, connect_outcome,
                                                 opcua_outcomes)
OrchestratorStopAll == SimulationOrchestrator_stop_all_devices

OrchestratorNext ==
    \/ OrchestratorInitialize \/ OrchestratorStartAll \/ OrchestratorStopAll
    \/ MQTTOnConnect \/ MQTTOnDisconnect

\* the facility driven through its orchestrator: initialize, then
\* start_all_devices and stop_all_devices in any order, with the callbacks of
\* the MQTT client's network loop in between
OrchestratorSpec == OrchestratorInit /\ [][OrchestratorNext]_vars

\* a facility of up to MaxDevices devices, started and stopped one by one,
\* its health recomputed at any time
HealthInit ==
    /\ PMInit
    /\ modbus_devices = EmptyDict
    /\ opcua_devices = EmptyDict
    /\ mqtt_devices = EmptyDict
    /\ mqtt_manager = MQTTDeviceManager
    /\ lifecycle = EmptyDict
    /\ handed = NothingHanded
    /\ orchestrator = SimulationOrchestrator
    /\ \E total \in 0..MaxDevices : health = HealthOf(total, 0)
    /\ HistoryIdle
    /\ PublisherIdle
    /\ SensorIdle
    /\ MachineIdle
    /\ RunsIdle
HealthStart == \E ok \in BOOLEAN : Health_start(ok)
HealthStop == Health_stop
HealthUpdate == _update_health_status
HealthNext == HealthStart \/ HealthStop \/ HealthUpdate
HealthSpec == HealthInit /\ [][HealthNext]_vars

\* the same facility driven through its orchestrator: start_all_devices once,
\* then devices stop or fail and are restarted one by one.  The monitoring
\* loop runs only if a caller creates its task; once created, the event loop
\* runs its iterations, which is the weak fairness below
MonitoringInit == HealthInit
MonitoringStartAll == \E started \in 0..MaxDevices : Health_start_all_devices(started)
MonitoringStop == health.running_devices /\ Health_stop
MonitoringRestart == \E was_running, ok \in BOOLEAN : Health_restart_device(was_running, ok)
MonitoringStartLoop == start_monitoring_loop
MonitoringIteration == MonitoringLoop_iteration
MonitoringNext ==
    \/ MonitoringStartAll \/ MonitoringStop \/ MonitoringRestart
    \/ MonitoringStartLoop \/ MonitoringIteration
MonitoringFairness == WF_vars(MonitoringIteration)
MonitoringSpec == MonitoringInit /\ [][MonitoringNext]_vars /\ MonitoringFairness

\* one MQTT device through a long run of publishes, a few of them failing
HistoryInit == Init
HistoryPublish == \E ok \in BOOLEAN : History_publish(ok)
HistoryNext == HistoryPublish
HistorySpec == HistoryInit /\ [][HistoryNext]_vars

\* the MQTT manager after initialize(), its gateway started and stopped in
\* any order, the broker answering or not, the connection coming and going,
\* the publish loop running while time passes
PublishResults == {"success", "failure", "raises"}
GatewayInit ==
    /\ PMInit
    /\ modbus_devices = EmptyDict
    /\ opcua_devices = EmptyDict
    /\ mqtt_devices = [d \in SeqToSet(MQTTIds) |-> MQTTDevice]
    /\ mqtt_manager = MQTTDeviceManager
    /\ lifecycle = [d \in SeqToSet(MQTTIds) |-> "created"]
    /\ handed = NothingHanded
    /\ orchestrator = SimulationOrchestrator
    /\ DataIdle
GatewayStartAll == \E outcome \in ConnectOutcomes : MQTTGateway_start_all_devices(outcome)
GatewayStopAll == MQTTGateway_stop_all_devices
GatewayPublish ==
    \E results \in [SeqToSet(MQTTIds) -> PublishResults] : _publish_loop(results)
GatewayClock == Publisher_clock
GatewayRestart == \E d \in DOMAIN mqtt_devices : MQTTDeviceManager_restart_device(d)
GatewayNext ==
    \/ GatewayStartAll \/ GatewayStopAll \/ GatewayPublish \/ GatewayClock
    \/ GatewayRestart \/ MQTTOnConnect \/ MQTTOnDisconnect
GatewaySpec == GatewayInit /\ [][GatewayNext]_vars

\* one Modbus sensor of either type with one of the data configurations, its
\* registers updated again and again, the generator raising now and then
SensorInit ==
    /\ PMInit
    /\ modbus_devices = EmptyDict
    /\ opcua_devices = EmptyDict
    /\ mqtt_devices = EmptyDict
    /\ mqtt_manager = MQTTDeviceManager
    /\ lifecycle = EmptyDict
    /\ handed = NothingHanded
    /\ orchestrator = SimulationOrchestrator
    /\ HealthIdle /\ HistoryIdle /\ PublisherIdle /\ MachineIdle /\ RunsIdle
    /\ \E device_type \in SensorTypes :
          \E data_config \in DataConfigsOf(device_type) :
              sensor = ModbusSensor(device_type, data_config)
SensorUpdate ==
    \E raw \in RawValues, raises \in BOOLEAN : ModbusSensor_update_registers(raw, raises)
SensorNext == SensorUpdate
SensorSpec == SensorInit /\ [][SensorNext]_vars

\* one CNC machine or one robot, its generator called tick after tick
MachineInit ==
    /\ PMInit
    /\ modbus_devices = EmptyDict
    /\ opcua_devices = EmptyDict
    /\ mqtt_devices = EmptyDict
    /\ mqtt_manager = MQTTDeviceManager
    /\ lifecycle = EmptyDict
    /\ handed = NothingHanded
    /\ orchestrator = SimulationOrchestrator
    /\ HealthIdle /\ HistoryIdle /\ PublisherIdle /\ SensorIdle /\ RunsIdle
    /\ \E device_type \in MachineTypes : machine = IndustrialDataGenerator(device_type)
\* a tick that finds the machine in the given state and draws the given roll
MachineTick(state, roll) ==
    /\ MachineState = state
    /\ \E initial_wear \in InitialWears, wear_step \in WearSteps, program \in Programs :
          Machine_generate_device_data(roll, initial_wear, wear_step, program)
MachineGenerate == \E roll \in Rolls : MachineTick(MachineState, roll)
MachineNext == MachineGenerate
\* random_state.random() is uniform on [0, 1): each of its intervals has a
\* positive probability at every tick, so with probability one a state that
\* is visited again and again sees each interval drawn again and again.
\* Assumed here for the CNC machine's intervals below 0.003 and from 0.15 to
\* 0.18 only
MachineFairness ==
    /\ SF_vars(MachineTick("RUNNING", 0))
    /\ SF_vars(MachineTick("IDLE", 0))
    /\ SF_vars(MachineTick("IDLE", 150))
    /\ SF_vars(MachineTick("ERROR", 0))
    /\ SF_vars(MachineTick("SETUP", 0))
MachineSpec == MachineInit /\ [][MachineNext]_vars /\ MachineFairness

\* one PLC controller with one of the configurations, its generator called
\* tick after tick
PLCInit ==
    /\ PMInit
    /\ modbus_devices = EmptyDict
    /\ opcua_devices = EmptyDict
    /\ mqtt_devices = EmptyDict
    /\ mqtt_manager = MQTTDeviceManager
    /\ lifecycle = EmptyDict
    /\ handed = NothingHanded
    /\ orchestrator = SimulationOrchestrator
    /\ HealthIdle /\ HistoryIdle /\ PublisherIdle /\ SensorIdle /\ RunsIdle
    /\ \E config \in PLCConfigs :
          machine = [IndustrialDataGenerator("plc_controller") EXCEPT
                        !.pattern_config = config]
PLCGenerate == \E draws \in PLCDraws : PLC_generate_device_data(draws)
PLCNext == PLCGenerate
PLCSpec == PLCInit /\ [][PLCNext]_vars

\* two generators of one device id and one configuration, in one process or
\* in two, each asked for snapshots at clock readings of its own
RunsInit ==
    /\ PMInit
    /\ modbus_devices = EmptyDict
    /\ opcua_devices = EmptyDict
    /\ mqtt_devices = EmptyDict
    /\ mqtt_manager = MQTTDeviceManager
    /\ lifecycle = EmptyDict
    /\ handed = NothingHanded
    /\ orchestrator = SimulationOrchestrator
    /\ HealthIdle /\ HistoryIdle /\ PublisherIdle /\ SensorIdle /\ MachineIdle
    /\ \E device_id \in RunIds, h1 \in HashSeeds, h2 \in HashSeeds :
          runs = GeneratorRuns(device_id, <<h1, h2>>)
RunsGenerate ==
    \E i \in 1..2, current_time \in 1..MaxReading :
        Run_generate_device_data(i, current_time)
RunsNext == RunsGenerate
RunsSpec == RunsInit /\ [][RunsNext]_vars

(* ------------------------ port manager: claims ------------------------- *)
\* the starts of the free contiguous blocks of size count in a pool
FreeBlockStarts(pool, count) ==
    {s \in pool.start_port..pool.end_port :
        RangeSet(s, count) \subseteq pool.available_ports}

\* C1: in every state reached by initialize_pools, allocate_ports,
\* deallocate_device_ports and validate_allocation_plan calls, every pool's
\* allocated and available sets are disjoint, together they are exactly
\* start_port..end_port, and used + available is the total that
\* get_port_utilization reports.
C1_PoolPartition ==
    \A protocol \in DOMAIN port_pools :
        LET pool == port_pools[protocol]
            u == get_port_utilization(protocol)
        IN /\ pool.allocated_ports \cap pool.available_ports = {}
           /\ pool.allocated_ports \cup pool.available_ports
                 = pool.start_port..pool.end_port
           /\ u.used + u.available = u.total
           /\ u.total = pool.end_port - pool.start_port + 1

\* a device's ports were released and a pool still has both allocated and
\* available ports
C1_Witness ==
    /\ last.op = "deallocate_device_ports" /\ last.path = "released"
    /\ \E protocol \in DOMAIN port_pools :
          /\ port_pools[protocol].allocated_ports # {}
          /\ port_pools[protocol].available_ports # {}

\* C2: every allocate_ports(protocol, id, n) with n >= 1 that hands a device
\* its ports returns exactly n ports, contiguous, strictly increasing and
\* inside the protocol's pool; and no port is in the records of two different
\* devices.  (What a device that already holds ports gets back is C3's case.)
C2_BlocksExactAndDisjoint ==
    /\ \A protocol \in DOMAIN port_pools,
          device_id \in Devices \ DOMAIN device_port_mappings,
          n \in 1..MaxCount, preferred_start \in PreferredStarts :
          LET r == AllocResult(port_pools, device_port_mappings,
                               protocol, device_id, n, preferred_start)
          IN ~r.ret.none =>
                /\ Len(r.ret.ports) = n
                /\ \A i \in 1..(Len(r.ret.ports) - 1) :
                      r.ret.ports[i + 1] = r.ret.ports[i] + 1
                /\ \A i \in 1..Len(r.ret.ports) :
                      /\ r.ret.ports[i] >= port_pools[protocol].start_port
                      /\ r.ret.ports[i] <= port_pools[protocol].end_port
    /\ \A d1, d2 \in DOMAIN device_port_mappings :
          d1 # d2 => SeqToSet(device_port_mappings[d1])
                        \cap SeqToSet(device_port_mappings[d2]) = {}

\* C3 as stated: any allocate_ports call for a device that already holds
\* ports returns exactly the ports of its record (the first call's ports) and
\* leaves every pool and every record unchanged.
C3_AllocateIdempotent_AsStated ==
    \A protocol \in Protocols, device_id \in DOMAIN device_port_mappings,
       n \in Counts, preferred_start \in PreferredStarts :
        LET r == AllocResult(port_pools, device_port_mappings,
                             protocol, device_id, n, preferred_start)
        IN /\ r.ret = List(device_port_mappings[device_id])
           /\ r.pools = port_pools
           /\ r.mappings = device_port_mappings

\* C3 amended: an allocate_ports call that names a protocol with a pool, for
\* a device that already holds ports, returns exactly the ports of its record
\* and leaves every pool and every record unchanged.
C3_AllocateIdempotent ==
    \A protocol \in DOMAIN port_pools, device_id \in DOMAIN device_port_mappings,
       n \in Counts, preferred_start \in PreferredStarts :
        LET r == AllocResult(port_pools, device_port_mappings,
                             protocol, device_id, n, preferred_start)
        IN /\ r.ret = List(device_port_mappings[device_id])
           /\ r.pools = port_pools
           /\ r.mappings = device_port_mappings

\* the last call was an allocate_ports for a device that already held ports
C3_Witness ==
    /\ last.op = "allocate_ports" /\ last.path = "already_allocated"
    /\ device_port_mappings # EmptyDict

\* performing the allocations of a plan one after another, from item i on,
\* on the given dictionaries: TRUE iff every allocate_ports returns non-null
RECURSIVE PlanAllocates(_, _, _, _)
PlanAllocates(pools, mappings, plan, i) ==
    IF i > Len(plan) THEN TRUE
    ELSE LET r == AllocResult(pools, mappings, plan[i][2], plan[i][1], plan[i][3],
                              NoPreferredStart)
         IN IF r.ret.none THEN FALSE
            ELSE PlanAllocates(r.pools, r.mappings, plan, i + 1)

\* C4: validate_allocation_plan(P) returns true exactly when performing the
\* allocations of P one after another on the current pools would each return
\* a non-null result.
C4_ValidateIffAllocatable ==
    \A plan \in Plans :
        ValidateFrom(TempPools(port_pools), plan, 1).ret
            = PlanAllocates(port_pools, device_port_mappings, plan, 1)

\* C5: validate_allocation_plan never changes the real state, whatever it
\* returns: pools, their order and the device records are as before the call.
C5_ValidateNeverMutates ==
    [][last'.op = "validate_allocation_plan" => UNCHANGED pmState]_vars

\* a plan was validated whose simulation allocated at least one block, while
\* a real pool had both allocated and available ports
C5_Witness ==
    /\ last.op = "validate_allocation_plan" /\ last.n >= 1
    /\ \E protocol \in DOMAIN port_pools :
          /\ port_pools[protocol].allocated_ports # {}
          /\ port_pools[protocol].available_ports # {}

\* C6: block selection in PortPool.allocate, for every pool of the manager
\* and every count >= 1: when preferred_start is given and its block is
\* entirely available exactly that block is returned; otherwise the free
\* contiguous block of size count with the lowest start (null if none).
C6_BlockSelection ==
    \A protocol \in DOMAIN port_pools, n \in 1..MaxCount,
       preferred_start \in PreferredStarts :
        LET pool == port_pools[protocol]
            r == PortPool_allocate(pool, n, preferred_start)
            starts == FreeBlockStarts(pool, n)
        IN IF /\ preferred_start # NoPreferredStart
              /\ RangeSet(preferred_start, n) \subseteq pool.available_ports
           THEN r.ret = List(RangeList(preferred_start, n))
           ELSE IF starts # {}
           THEN r.ret = List(RangeList(MinOf(starts), n))
           ELSE r.ret = None

\* the last call allocated a block although a free block with a lower start
\* existed: the preferred block was used
C6_Witness ==
    /\ last.op = "allocate_ports" /\ last.path = "allocated_preferred"
    /\ LET ports == device_port_mappings[last.device_id]
           pool == port_pools[last.protocol]
       IN \E s \in pool.start_port..pool.end_port :
             /\ s < ports[1]
             /\ RangeSet(s, Len(ports))
                   \subseteq pool.available_ports \cup SeqToSet(ports)

\* C7 as stated: when the protocol has no pool, or its pool has no free
\* contiguous block of the requested size, allocate_ports returns null and
\* leaves every pool and every record unchanged.
C7_FailureIsClean_AsStated ==
    \A protocol \in Protocols, device_id \in Devices, n \in Counts,
       preferred_start \in PreferredStarts :
        LET r == AllocResult(port_pools, device_port_mappings,
                             protocol, device_id, n, preferred_start)
        IN (\/ protocol \notin DOMAIN port_pools
            \/ FreeBlockStarts(port_pools[protocol], n) = {})
           => /\ r.ret = None
              /\ r.pools = port_pools
              /\ r.mappings = device_port_mappings

\* C7 amended: when the protocol has no pool, or the device holds no ports
\* and the pool has no free contiguous block of the requested size,
\* allocate_ports returns null and leaves every pool and record unchanged.
C7_FailureIsClean ==
    \A protocol \in Protocols, device_id \in Devices, n \in Counts,
       preferred_start \in PreferredStarts :
        LET r == AllocResult(port_pools, device_port_mappings,
                             protocol, device_id, n, preferred_start)
        IN (\/ protocol \notin DOMAIN port_pools
            \/ /\ device_id \notin DOMAIN device_port_mappings
               /\ FreeBlockStarts(port_pools[protocol], n) = {})
           => /\ r.ret = None
              /\ r.pools = port_pools
              /\ r.mappings = device_port_mappings

\* the last allocate_ports failed for want of a contiguous block although
\* the pool had at least as many free ports as were requested
C7_Witness ==
    /\ last.op = "allocate_ports" /\ last.path = "no_contiguous_block"
    /\ \E protocol \in DOMAIN port_pools :
          Cardinality(port_pools[protocol].available_ports) >= 2

\* C8: deallocate_device_ports for a device that holds ports returns true and
\* removes its record, and allocate followed by deallocate restores the
\* earlier pools and records, for every pool configuration.
C8_DeallocateRestores ==
    /\ \A device_id \in DOMAIN device_port_mappings :
          LET r == DeallocResult(port_pools, port_pools_keys,
                                 device_port_mappings, device_id)
          IN r.ret /\ device_id \notin DOMAIN r.mappings
    /\ \A protocol \in DOMAIN port_pools,
          device_id \in Devices \ DOMAIN device_port_mappings,
          n \in 1..MaxCount, preferred_start \in PreferredStarts :
          LET a == AllocResult(port_pools, device_port_mappings,
                               protocol, device_id, n, preferred_start)
              r == DeallocResult(a.pools, port_pools_keys, a.mappings, device_id)
          IN Truthy(a.ret) =>
                /\ r.ret
                /\ r.pools = port_pools
                /\ r.mappings = device_port_mappings

\* C9: after initialize_pools every pool it was given is entirely available
\* and no device record from before the call remains.
C9_InitPoolsResets ==
    \A port_ranges \in PortRangeArgs :
        LET r == InitPoolsFrom(port_pools, port_pools_keys, port_ranges, 1)
        IN /\ \A i \in 1..Len(port_ranges) :
                 Len(port_ranges[i][2]) = 2 =>
                    r.pools[port_ranges[i][1]]
                       = PortPool(port_ranges[i][2][1], port_ranges[i][2][2])
           /\ MappingsAfterInit(device_port_mappings) = EmptyDict

(* ----------------------- device lifecycle: claims ---------------------- *)
\* C10: for every device of every protocol, get_status() reports status
\* `running' from a successful start until stop is invoked, and once stop has
\* been performed (the device's stop() or its manager's stop_all_devices())
\* it reports running = false and status `stopped', whatever the connection
\* state was when it was stopped.
C10_LifecycleStatus ==
    \A d \in DOMAIN lifecycle :
        /\ lifecycle[d] = "started" => get_status(d).status = "running"
        /\ lifecycle[d] = "stopped" =>
              /\ get_status(d).running = FALSE
              /\ get_status(d).status = "stopped"

(* ------------------- update loops and start failures ------------------- *)
\* the devices that serve an endpoint: Modbus and OPC-UA
ServerDevices == DOMAIN modbus_devices \cup DOMAIN opcua_devices
\* the device record of a server device
ServerDevice(d) ==
    IF d \in DOMAIN modbus_devices THEN modbus_devices[d] ELSE opcua_devices[d]

\* C11: from the return of a successful start() of a Modbus or OPC-UA device
\* until stop() is called, the device's periodic update is live: the update
\* loop that start() launched is still running, so that ticks keep occurring
\* after the seeding update.
C11_UpdateLoopLive ==
    \A d \in ServerDevices :
        lifecycle[d] = "started" => ServerDevice(d).update_task = "active"

\* the endpoint of a server device is bound by a server of the device
EndpointBound(d) ==
    IF d \in DOMAIN modbus_devices THEN ModbusPortHeld(modbus_devices[d])
    ELSE OPCUAPortHeld(opcua_devices[d])

\* C12: start() of a Modbus or OPC-UA device returns ok only if its server
\* endpoint was actually bound: a device whose start() returned ok (and that
\* was not stopped since) has its endpoint bound; a start() of a stopped
\* device that returns failure leaves it not running with status `stopped'.
C12_StartOkOnlyIfBound ==
    /\ \A d \in ServerDevices : lifecycle[d] = "started" => EndpointBound(d)
    /\ \A d \in DOMAIN modbus_devices, outcome \in ModbusStartOutcomes :
          /\ modbus_devices[d].status = "stopped"
          /\ ~ModbusDevice_start_ok(modbus_devices[d], outcome)
          => ModbusDevice_start_result(modbus_devices[d], outcome).status = "stopped"
    /\ \A d \in DOMAIN opcua_devices, outcome \in OPCUAStartOutcomes :
          /\ opcua_devices[d].status = "stopped"
          /\ ~OPCUADevice_start_ok(opcua_devices[d], outcome)
          => OPCUADevice_start_result(opcua_devices[d], outcome).status = "stopped"

\* a device on which stop() has left nothing behind: not running, status
\* `stopped', the update task it names not alive, its port not bound
ModbusStoppedClean(device) ==
    /\ ~device.running
    /\ device.status = "stopped"
    /\ device.update_task # "active"
    /\ ~ModbusPortHeld(device)
OPCUAStoppedClean(device) ==
    /\ ~device.running
    /\ device.status = "stopped"
    /\ device.update_task # "active"
    /\ ~device.server
    /\ ~OPCUAPortHeld(device)

\* C13: whenever a start() of a Modbus or OPC-UA device fails part-way
\* (at whatever step), the stop() that follows leaves the device with
\* running = false, status `stopped', no live update task and no server or
\* port still held.
C13_StopAfterFailedStart ==
    /\ \A d \in DOMAIN modbus_devices, outcome \in ModbusStartOutcomes :
          ~ModbusDevice_start_ok(modbus_devices[d], outcome)
          => ModbusStoppedClean(ModbusDevice_stop_result(
                 ModbusDevice_start_result(modbus_devices[d], outcome)))
    /\ \A d \in DOMAIN opcua_devices, outcome \in OPCUAStartOutcomes :
          ~OPCUADevice_start_ok(opcua_devices[d], outcome)
          => OPCUAStoppedClean(OPCUADevice_stop_result(
                 OPCUADevice_start_result(opcua_devices[d], outcome)))

\* C14: a failing update tick of a Modbus or OPC-UA device is swallowed and
\* counted: in the step of the failing tick error_count grows by exactly one,
\* the device stays running and its update loop stays alive, so that the next
\* tick is attempted.
C14_FailingTickCounted ==
    [][/\ \A d \in DOMAIN modbus_devices :
             ModbusDevice__data_update_loop(d, TRUE)
             => /\ modbus_devices'[d].error_count = modbus_devices[d].error_count + 1
                /\ modbus_devices'[d].running
                /\ modbus_devices'[d].update_task = "active"
       /\ \A d \in DOMAIN opcua_devices :
             \/ OPCUADevice__update_node_values_begin(d, TRUE)
             \/ OPCUADevice__update_node_values_end(d, TRUE)
             => /\ opcua_devices'[d].error_count = opcua_devices[d].error_count + 1
                /\ opcua_devices'[d].running
                /\ opcua_devices'[d].update_task = "active"
                /\ opcua_devices'[d].tick_pc = "sleep"]_vars
\* ticks of an OPC-UA device have failed (nothing else counts an error
\* there), the device is running and its loop alive
C14_Witness ==
    \E d \in DOMAIN opcua_devices :
        /\ opcua_devices[d].error_count = MaxErrorCount
        /\ opcua_devices[d].running
        /\ opcua_devices[d].update_task = "active"

\* C15: an inspection call that interleaves with an update tick returns
\* either the complete previous snapshot or the complete new one, never a
\* partly written one, and the object handed to the reader is not modified
\* afterwards by the tick.
C15_SnapshotAtomic ==
    /\ handed.view # "partial"
    /\ ~handed.modified

\* the number of update loops of a server device that are alive
LoopsAlive(d) ==
    (IF ServerDevice(d).update_task = "active" THEN 1 ELSE 0) + ServerDevice(d).orphan_loops

\* C16: the updates of one device are strictly serial: whatever the sequence
\* of start, stop and restart calls, at most one update loop of the device is
\* alive, and once stop() has returned no loop of the device can make a tick.
C16_UpdatesSerial ==
    \A d \in ServerDevices :
        /\ LoopsAlive(d) <= 1
        /\ lifecycle[d] = "stopped" =>
              /\ ServerDevice(d).update_task # "active"
              /\ ~ServerDevice(d).running

\* C17: the snapshot is seeded by start(): get_node_data() of an OPC-UA
\* device returns null only while no update of the device has happened, and
\* from the moment start() returned ok it returns a snapshot, without waiting
\* for the first periodic tick.
C17_SnapshotSeeded ==
    \A d \in DOMAIN opcua_devices :
        /\ opcua_devices[d]._cached_node_data = "none"
              => opcua_devices[d].last_update = "none"
        /\ lifecycle[d] = "started" => opcua_devices[d]._cached_node_data # "none"

\* C18: after stop_all_devices() of a Modbus or OPC-UA manager has returned,
\* every device of the manager is stopped and no device id of the manager
\* holds a port in the port manager: the records are gone and all the ports
\* of the manager's pool are available again.
C18_StopAllReleasesPorts ==
    /\ \A d \in DOMAIN modbus_devices :
          /\ ~ModbusDevice_stop_result(modbus_devices[d]).running
          /\ ModbusDevice_stop_result(modbus_devices[d]).status = "stopped"
          /\ d \notin DOMAIN DeallocateAllFrom(port_pools, port_pools_keys,
                                               device_port_mappings, ModbusIds, 1).mappings
    /\ \A d \in DOMAIN opcua_devices :
          /\ ~OPCUADevice_stop_result(opcua_devices[d]).running
          /\ OPCUADevice_stop_result(opcua_devices[d]).status = "stopped"
          /\ d \notin DOMAIN DeallocateAllFrom(port_pools, port_pools_keys,
                                               device_port_mappings, OPCUAIds, 1).mappings
    /\ /\ modbus_devices # EmptyDict
       /\ \A d \in DOMAIN modbus_devices : lifecycle[d] = "stopped"
       /\ DOMAIN modbus_devices \cap DOMAIN device_port_mappings = {}
       => port_pools["modbus"].allocated_ports = {}
    /\ /\ opcua_devices # EmptyDict
       /\ \A d \in DOMAIN opcua_devices : lifecycle[d] = "stopped"
       /\ DOMAIN opcua_devices \cap DOMAIN device_port_mappings = {}
       => port_pools["opcua"].allocated_ports = {}

(* ----------------------------- orchestrator ---------------------------- *)
\* the number of devices the configuration asks of a protocol's pool
DevicesOf(protocol) ==
    IF protocol = "modbus" THEN Len(ModbusIds)
    ELSE IF protocol = "opcua" THEN Len(OPCUAIds) ELSE 0
\* the pools are large enough for the enabled protocols: one port per Modbus
\* and per OPC-UA device, none per MQTT device
PoolsLargeEnough ==
    /\ Enabled(orchestrator.config, "modbus_tcp") =>
          /\ "modbus" \in DOMAIN port_pools
          /\ get_port_utilization("modbus").total >= DevicesOf("modbus")
    /\ Enabled(orchestrator.config, "opcua") =>
          /\ "opcua" \in DOMAIN port_pools
          /\ get_port_utilization("opcua").total >= DevicesOf("opcua")

\* C19: the orchestrator's initialize() validates the union of the managers'
\* allocation plans: it succeeds whenever every enabled manager initialised
\* and the pools have enough ports (one per Modbus or OPC-UA device, none per
\* MQTT device); it fails only when a manager failed or the pools really are
\* too small.
C19_InitializeSucceeds ==
    orchestrator.call.op = "initialize" =>
        (/\ SeqToSet(orchestrator.config.enabled) \subseteq orchestrator.call.ok
         /\ PoolsLargeEnough
         => orchestrator.call.ret)

\* C20: failures are isolated at start.  After a start_all_devices() of the
\* orchestrator on a facility that was initialised or stopped by the call
\* before: a protocol whose start failed as a whole (its manager returned no
\* device, as when the MQTT broker cannot be reached) has no device marked
\* running, and it did not keep the other protocols from starting: every
\* manager that returned devices has its entry in running_devices.
C20_StartFailureIsolated ==
    orchestrator.call.op = "start_all_devices" /\ orchestrator.call.from_stopped =>
        /\ \A name \in orchestrator.call.failed :
              RunningOf(name, modbus_devices, opcua_devices, mqtt_devices) = {}
        /\ \A name \in SeqToSet(orchestrator.device_managers) \ orchestrator.call.failed :
              name \in DOMAIN orchestrator.running_devices

(* ------------------------ data and health: claims ---------------------- *)
Reverse(seq) == [i \in 1..Len(seq) |-> seq[Len(seq) + 1 - i]]

\* C21: a stop_all_devices() of the orchestrator that follows a
\* start_all_devices() on an initialised facility stops the managers in the
\* reverse of the order in which start_all_devices() started them, and the
\* embedded MQTT broker, if there is one, after all of them.
C21_StopReversesStart ==
    LET history == orchestrator.history
        managers == SelectSeq(history.stopped,
                              LAMBDA c : c \in SeqToSet(history.started))
    IN /\ orchestrator.call.op = "stop_all_devices"
       /\ history.initialized
       /\ history.started # <<>>
       => /\ managers = Reverse(history.started)
          /\ \A i \in 1..Len(history.stopped) :
                history.stopped[i] = "embedded_mqtt_broker" => i = Len(history.stopped)

\* C22: health bucketing.  Whenever health_status was computed over N > 0
\* devices of which R had the status `running', its status is healthy if
\* R/N >= 95%, degraded if 80% <= R/N < 95% and unhealthy otherwise, and N
\* and R are the counts at that time: 19 of 20 is healthy, 18 and 16 of 20
\* are degraded, 15 of 20 is unhealthy.
C22_HealthBucketing ==
    LET computed == health.health_status
        N == computed.total_devices
        R == computed.healthy_devices
    IN N > 0 =>
          /\ computed.status = "healthy" <=> 100 * R >= 95 * N
          /\ computed.status = "degraded" <=> 100 * R >= 80 * N /\ 100 * R < 95 * N
          /\ computed.status = "unhealthy" <=> 100 * R < 80 * N
          /\ N = health.total
          /\ N = 20 /\ R = 19 => computed.status = "healthy"
          /\ N = 20 /\ R \in {16, 18} => computed.status = "degraded"
          /\ N = 20 /\ R = 15 => computed.status = "unhealthy"
C22_Witness ==
    /\ health.total = 20
    /\ health.running = 18
    /\ health.health_status =
          [status |-> "degraded", total_devices |-> 20, healthy_devices |-> 18]

\* the last n elements of a sequence, or all of it
LastOf(seq, n) ==
    IF Len(seq) <= n THEN seq ELSE SubSeq(seq, Len(seq) - n + 1, Len(seq))

\* C23: the message history of an MQTT device never holds more than 100
\* entries, and after any number of recorded publishes it holds the most
\* recent payloads published, up to 100 of them, in the order of publishing.
C23_HistoryRolling ==
    /\ Len(mqtt_history.message_history) <= 100
    /\ mqtt_history.message_history = LastOf(mqtt_history.published, 100)
    /\ mqtt_history.publish_count = Len(mqtt_history.published)
C23_Witness ==
    /\ Len(mqtt_history.published) = 102
    /\ Len(mqtt_history.message_history) = 100
    /\ mqtt_history.error_count = 1

\* a step in which a data message of device d is published after an
\* earlier one of the same device
NextDataMessage(d) ==
    /\ d \in DOMAIN publisher.last_data
    /\ publisher'.last_data[d] # publisher.last_data[d]

\* C24: for each MQTT device, data messages are published in the order in
\* which their payloads were generated, with timestamps that do not
\* decrease, and a data message is never published less than
\* publish_interval after the device's previous successful publish.
C24_PublishSpacing ==
    [][\A d \in SeqToSet(MQTTIds) :
          NextDataMessage(d) =>
              /\ publisher'.last_data[d].payload > publisher.last_data[d].payload
              /\ publisher'.last_data[d].timestamp >= publisher.last_data[d].timestamp
              /\ publisher'.last_data[d].timestamp - publisher.last_data[d].timestamp
                     >= PublishInterval]_vars

\* C24 as it holds: order and timestamps as stated; the data messages that
\* one run of the publish loop publishes for a device are at least
\* publish_interval apart.  A loop started anew (the gateway was stopped and
\* started again) publishes for every running device in its first turn.
C24_PublishSpacingPerRun ==
    [][\A d \in SeqToSet(MQTTIds) :
          NextDataMessage(d) =>
              /\ publisher'.last_data[d].payload > publisher.last_data[d].payload
              /\ publisher'.last_data[d].timestamp >= publisher.last_data[d].timestamp
              /\ d \in DOMAIN publisher.last_publish =>
                    /\ publisher.last_publish[d] = publisher.last_data[d].current_time
                    /\ publisher'.last_data[d].timestamp
                           - publisher.last_data[d].timestamp >= PublishInterval]_vars
C24_Witness ==
    /\ "mqtt_sensor_000" \in DOMAIN publisher.last_data
    /\ publisher.last_data["mqtt_sensor_000"] =
          [payload |-> 2, timestamp |-> 2 * PublishInterval,
           current_time |-> 2 * PublishInterval]
    /\ Len(SelectSeq(publisher.log,
                     LAMBDA m : m.kind = "data" /\ m.device_id = "mqtt_sensor_000")) = 2

\* the places of the log that hold a message of the kind for the device
PlacesOf(kind, d) ==
    {i \in 1..Len(publisher.log) :
        publisher.log[i].kind = kind /\ publisher.log[i].device_id = d}
DataPlaces == {i \in 1..Len(publisher.log) : publisher.log[i].kind = "data"}

\* every data message comes after an online status of every device
OnlineBeforeData ==
    \A i \in DataPlaces : \A d \in SeqToSet(MQTTIds) :
        \E j \in PlacesOf("online", d) : j < i

\* the disconnect at place i comes after an offline status of every device
\* that itself comes after every data message
OfflineBeforeDisconnect(i) ==
    \A d \in SeqToSet(MQTTIds) :
        \E j \in PlacesOf("offline", d) : j < i /\ \A k \in DataPlaces : k < j

\* C25: status framing of the gateway.  After a successful start an online
\* status is published for every device before any data message; on stop an
\* offline status is published for every device after the last data message
\* and before the client disconnects.
C25_StatusFraming ==
    /\ OnlineBeforeData
    /\ \A i \in PlacesOf("disconnect", "") :
          publisher.log[1].kind = "online" => OfflineBeforeDisconnect(i)

\* C25 as it holds: the offline statuses are published when the gateway is
\* connected at the time of the stop; with the connection lost, the stop goes
\* on to disconnect the client without them.
C25_StatusFramingConnected ==
    /\ OnlineBeforeData
    /\ \A i \in PlacesOf("disconnect", "") :
          publisher.log[i].connected => OfflineBeforeDisconnect(i)
C25_Witness ==
    /\ Len(publisher.log) = 2 * Len(MQTTIds) + 2
    /\ publisher.log[1].kind = "online"
    /\ publisher.log[Len(MQTTIds) + 1].kind = "data"
    /\ publisher.log[Len(MQTTIds) + 2].kind = "offline"
    /\ publisher.log[Len(publisher.log)] =
          [kind |-> "disconnect", device_id |-> "", connected |-> TRUE]

(* ------------------------ data generation: claims ---------------------- *)
\* C26: a Modbus temperature_sensor whose data configuration gives
\* temperature_range = [lo, hi] shows, after every successful tick, HR[0]/100
\* within [lo, hi], HR[1]/100 within the humidity range (the configured one,
\* [30, 80] if none is configured), HR[2] = 0 and DI[0] = 1.
C26_TemperatureRegistersInRange ==
    (/\ sensor.device_type = "temperature_sensor"
     /\ sensor.updated
     /\ "temperature_range" \in DOMAIN sensor.pattern_config) =>
        LET temperature_range == sensor.pattern_config.temperature_range
            humidity_range == Get(sensor.pattern_config, "humidity_range", <<30, 80>>)
        IN /\ temperature_range[1] * 100 <= sensor.hr[1]
           /\ sensor.hr[1] <= temperature_range[2] * 100
           /\ humidity_range[1] * 100 <= sensor.hr[2]
           /\ sensor.hr[2] <= humidity_range[2] * 100
           /\ sensor.hr[3] = 0
           /\ sensor.di[1] = TRUE

\* the alarm thresholds of a pressure transmitter's data configuration: those
\* of its pressure section, else those at its top level, else the defaults
ConfiguredThresholds(pattern_config) ==
    Get(Get(pattern_config, "pressure", EmptyDict), "alarm_thresholds",
        Get(pattern_config, "alarm_thresholds",
            [high_pressure |-> 250, low_flow |-> 20]))

\* C27: in every snapshot of a pressure_transmitter, high_alarm is true
\* exactly when the snapshot's pressure exceeds the configured high-pressure
\* threshold and low_flow_alarm is true exactly when the snapshot's flow_rate
\* is below the configured low-flow threshold; DI[0] and DI[1] carry the two.
C27_AlarmsFollowSnapshot ==
    (sensor.device_type = "pressure_transmitter" /\ sensor.updated) =>
        LET data == sensor.device_data
            thresholds == ConfiguredThresholds(sensor.pattern_config)
        IN /\ data.high_alarm = (data.pressure > thresholds.high_pressure)
           /\ data.low_flow_alarm = (data.flow_rate < thresholds.low_flow)
           /\ sensor.di = <<data.high_alarm, data.low_flow_alarm>>

\* the state in last_values of a CNC machine
machine_state == Get(machine.last_values, "machine_state", "RUNNING")

\* C28: a CNC machine under the default configuration, started in RUNNING and
\* ticked for ever, is in each of RUNNING, IDLE, ERROR and SETUP again and
\* again: every state is reachable, and from wherever the machine is RUNNING
\* is reachable again (no state is a trap).
C28_EveryStateRecurs ==
    /\ []<>(machine.device_type = "cnc_machine" => machine_state = "RUNNING")
    /\ []<>(machine.device_type = "cnc_machine" => machine_state = "IDLE")
    /\ []<>(machine.device_type = "cnc_machine" => machine_state = "ERROR")
    /\ []<>(machine.device_type = "cnc_machine" => machine_state = "SETUP")

\* a CNC machine is RUNNING again after a tick that found it in SETUP
C28_Witness ==
    /\ machine.device_type = "cnc_machine"
    /\ machine.found.state = "SETUP"
    /\ machine_state = "RUNNING"

\* C29: a CNC machine leaves ERROR only to IDLE and only on a tick whose
\* state_ticks is above 5, leaves SETUP only to RUNNING and only on a tick
\* whose state_ticks is above 3, and state_ticks is 0 after every tick that
\* changes the state, the tool change's forced SETUP included.
C29_AgeGating ==
    [][machine.device_type = "cnc_machine" =>
          /\ (machine_state = "ERROR" /\ machine_state' # "ERROR") =>
                 (machine_state' = "IDLE" /\ MachineTicks > 5)
          /\ (machine_state = "SETUP" /\ machine_state' # "SETUP") =>
                 (machine_state' = "RUNNING" /\ MachineTicks > 3)
          /\ (machine_state' # machine_state) => machine'.last_values.state_ticks = 0
          /\ (machine'.data.machine_state = "RUNNING" /\ machine_state' = "SETUP") =>
                 machine'.last_values.state_ticks = 0]_vars

\* a tick found a CNC machine in ERROR with its counter above 5 and left it
\* in IDLE
C29_Witness ==
    /\ machine.device_type = "cnc_machine"
    /\ machine.found.state = "ERROR"
    /\ machine.found.ticks > 5
    /\ machine_state = "IDLE"

\* the states a single tick can take a RUNNING robot to
RobotSuccessors ==
    {generate_robot_data(machine.last_values, roll).last_values.robot_state :
        roll \in Rolls}

\* C30: from RUNNING, a single tick can take an industrial robot to PAUSED
\* and a single tick can take it to STOPPED.
C30_RobotTransitionsPossible ==
    (machine.device_type = "industrial_robot" /\ MachineState = "RUNNING") =>
        /\ "PAUSED" \in RobotSuccessors
        /\ "STOPPED" \in RobotSuccessors

\* C31: after every PLC tick, in every mode and for every configuration, the
\* integral term lies in [-50, 50], the reported control_output in [0, 100]
\* and the process value within process_value_range.
C31_PLCBounds ==
    (machine.device_type = "plc_controller" /\ machine.data # EmptyDict) =>
        LET pv_range == Get(machine.pattern_config, "process_value_range", <<0, 100>>)
        IN /\ machine.last_values.integral_term >= -50
           /\ machine.last_values.integral_term <= 50
           /\ machine.data.integral_term = machine.last_values.integral_term
           /\ machine.data.control_output >= 0
           /\ machine.data.control_output <= 100
           /\ machine.data.process_value >= pv_range[1]
           /\ machine.data.process_value <= pv_range[2]

C33_SnapshotStateCurrent ==
    (machine.device_type = "cnc_machine" /\ machine.data # EmptyDict) =>
        machine.data.machine_state = machine.last_values.machine_state

\* C34: two generators built with the same device id and the same pattern
\* configuration and driven with the same clock readings produce the same
\* snapshots, also when the two run in different processes.
C34_GeneratorDeterminism ==
    \A n \in 1..MaxSnapshots :
        (/\ n <= Len(runs.snapshots[1])
         /\ n <= Len(runs.snapshots[2])
         /\ \A k \in 1..n :
               runs.snapshots[1][k].timestamp = runs.snapshots[2][k].timestamp) =>
            runs.snapshots[1][n] = runs.snapshots[2][n]

(* ------------------------- second round: claims ------------------------ *)
\* a device the turn of the publish loop that starts now handles: running
\* and due
HandledNow(d) ==
    /\ mqtt_devices[d].running
    /\ DuePublish(publisher.last_publish, d, publisher.clock)

\* C35: in a turn of the publish loop, a successful publish increases the
\* device's publish_count by one, appends the payload to its history and
\* postpones its next publish by publish_interval; a failed or raising
\* publish increases only the device's error_count by one and leaves its
\* publish_count, history and due time as they were, so that it is due again
\* at the next turn; a device that is not handled keeps its record; and the
\* loop goes on whatever the results were.
C35_PublishBookkeeping ==
    [][(publisher'.turn.flip # publisher.turn.flip) =>
          /\ \A d \in DOMAIN mqtt_devices :
                LET before == publisher.records[d]
                    after == publisher'.records[d]
                    result == publisher'.turn.results[d]
                    payload == publisher.generated[d] + 1
                IN IF ~HandledNow(d)
                   THEN after = before
                   ELSE IF result = "success"
                   THEN /\ after.publish_count = before.publish_count + 1
                        /\ after.error_count = before.error_count
                        /\ after.message_history = Append(before.message_history, payload)
                        /\ \A t \in publisher.clock..(publisher.clock + PublishInterval - 1) :
                              ~DuePublish(publisher'.last_publish, d, t)
                        /\ DuePublish(publisher'.last_publish, d,
                                      publisher.clock + PublishInterval)
                   ELSE /\ after.error_count = before.error_count + 1
                        /\ after.publish_count = before.publish_count
                        /\ after.message_history = before.message_history
                        /\ DuePublish(publisher'.last_publish, d, publisher.clock)
          /\ mqtt_manager'._publish_task = "active"
          /\ mqtt_manager'._running]_vars

\* a turn of the loop in which one device's publish succeeded and another's
\* raised, both recorded
C35_Witness ==
    \E d1, d2 \in DOMAIN publisher.turn.results :
        /\ publisher.turn.results[d1] = "success"
        /\ publisher.turn.results[d2] = "raises"
        /\ publisher.records[d1].publish_count > 0
        /\ publisher.records[d2].error_count > 0
        /\ publisher.records[d2].publish_count = 0

\* C36: whenever a Modbus or OPC-UA device is running, the port manager
\* records ports as allocated to its device id, also after stop_all followed
\* by start_all and after a restart of the device.
C36_RunningPortRecorded ==
    /\ \A d \in DOMAIN modbus_devices :
          modbus_devices[d].running => d \in DOMAIN device_port_mappings
    /\ \A d \in DOMAIN opcua_devices :
          opcua_devices[d].running => d \in DOMAIN device_port_mappings

\* C37: the orchestrator registers a protocol manager only if the manager's
\* initialize() succeeded: a manager whose initialize() failed is not in
\* device_managers and start_all_devices never starts it.
C37_RegisteredOnlyIfInitialized ==
    /\ \A name \in SeqToSet(orchestrator.device_managers) :
          name \in orchestrator.history.init_ok
    /\ \A name \in SeqToSet(orchestrator.history.started) :
          name \in orchestrator.history.init_ok

\* C38: when a manager's initialize() fails part-way through creating its
\* devices (the pool runs out at the second device), the ports allocated to
\* its earlier devices are released: the port pools and the records are the
\* same as before the initialize() call.
C38_FailedInitReleasesPorts ==
    \A port_start \in Ports :
        "modbus" \in DOMAIN port_pools =>
            LET created == CreateDevicesFrom(port_pools, device_port_mappings, "modbus",
                                             <<"modbus_plc_000", "modbus_plc_001">>,
                                             port_start, 1)
            IN ~created.ok =>
                  /\ created.pools = port_pools
                  /\ created.mappings = device_port_mappings

\* C39: no MQTT device has status `running' while the gateway is not
\* started (never started, failed to connect, or stopped), whatever
\* start_all_devices, stop_all_devices and restart_device calls were made.
C39_RunningOnlyWithGateway ==
    \A d \in DOMAIN mqtt_devices :
        mqtt_devices[d].status = "running" =>
            /\ mqtt_manager._running
            /\ mqtt_manager._publish_task = "active"

\* C40: health freshness.  Once start_all_devices has completed, whenever
\* the number of running devices differs from the healthy_devices of
\* health_status (a device stopped or failed), health_status is eventually
\* computed again, with the running count and the bucket of the devices as
\* they are then.
C40_HealthFreshness ==
    (health.running_devices /\ health.health_status.healthy_devices # health.running)
        ~> (/\ health.health_status.healthy_devices = health.running
            /\ health.health_status.status = HealthBucket(health.running, health.total))

====
